---- MODULE Spec2Model ----
(***************************************************************************)
(* The distributed task framework of disttask/framework: the per-task      *)
(* dispatcher (driver) state machine, the storage rows it reads and        *)
(* writes, the dispatcher manager, and the task-type strategies of the     *)
(* test suites.                                                            *)
(***************************************************************************)
EXTENDS Integers, Sequences, FiniteSets, TLC

(***************************************************************************)
(* Task and subtask states of package proto.                               *)
(***************************************************************************)
TaskStatePending == "pending"
TaskStateRunning == "running"
TaskStateSucceed == "succeed"
TaskStateReverting == "reverting"
TaskStateFailed == "failed"
TaskStateRevertFailed == "revert_failed"
TaskStateCancelling == "cancelling"
TaskStateCanceled == "canceled"
TaskStatePausing == "pausing"
TaskStatePaused == "paused"
TaskStateResuming == "resuming"
TaskStateRevertPending == "revert_pending"
TaskStateReverted == "reverted"

TaskStates ==
    { TaskStatePending, TaskStateRunning, TaskStateSucceed, TaskStateReverting,
      TaskStateFailed, TaskStateRevertFailed, TaskStateCancelling,
      TaskStateCanceled, TaskStatePausing, TaskStatePaused, TaskStateResuming,
      TaskStateRevertPending, TaskStateReverted }

(***************************************************************************)
(* VerifyTaskStateTransform: the rules map and the lookup.                 *)
(***************************************************************************)
rules ==
    [ s \in TaskStates |->
        CASE s = TaskStatePending ->
               << TaskStateRunning, TaskStateCancelling, TaskStatePausing,
                  TaskStateSucceed, TaskStateFailed >>
          [] s = TaskStateRunning ->
               << TaskStateSucceed, TaskStateReverting, TaskStateFailed,
                  TaskStateCancelling, TaskStatePausing >>
          [] s = TaskStateSucceed -> << >>
          [] s = TaskStateReverting -> << TaskStateReverted >>
          [] s = TaskStateFailed -> << >>
          [] s = TaskStateRevertFailed -> << >>
          [] s = TaskStateCancelling -> << TaskStateReverting >>
          [] s = TaskStateCanceled -> << >>
          [] s = TaskStatePausing -> << TaskStatePaused >>
          [] s = TaskStatePaused -> << TaskStateResuming >>
          [] s = TaskStateResuming -> << TaskStateRunning >>
          [] s = TaskStateRevertPending -> << >>
          [] s = TaskStateReverted -> << >> ]

\* A transform check that lost the commented-out entries' removal: the
\* cancelling row still lists canceled and the reverting row revert_failed,
\* and the identity shortcut is missing.
VerifyTaskStateTransformMutant(from, to) ==
    \/ \E i \in 1..Len(rules[from]) : rules[from][i] = to
    \/ from = TaskStateCancelling /\ to = TaskStateCanceled
    \/ from = TaskStateReverting /\ to = TaskStateRevertFailed

VerifyTaskStateTransform(from, to) ==
    IF from = to
    THEN TRUE
    ELSE \E i \in 1..Len(rules[from]) : rules[from][i] = to


(***************************************************************************)
(* Program constants.                                                      *)
(***************************************************************************)
DefaultSubtaskConcurrency == 16
MaxSubtaskConcurrency == 256
DefaultLiveNodesCheckInterval == 2
\* checkDispatch sets the cap to 1 for its single-task runs.
DefaultDispatchConcurrency == 1
nonRetrySQLTime == 1
subtaskCnt == 3
StepInit == -1
StepOne == 1
StepTwo == 2

(***************************************************************************)
(* Bounds of the model.                                                    *)
(***************************************************************************)
\* retrySQLTimes is variable.DefTiDBDDLErrorCountLimit in the program; the
\* model retries a failing write this many times.
retrySQLTimes == 2
\* Number of tasks submitted over a run of the life-cycle specification.
MaxTasks == 1
\* Number of tasks submitted over a run of the manager specification.
MaxManagerTasks == 2
\* Number of servers that leave the cluster over a run.
MaxServerDown == 1
\* Largest number of metas handed to dispatchSubTask in SpecDispatch.
MaxMetas == 3

(***************************************************************************)
(* Cluster view: the servers of TestGetInstance.                           *)
(***************************************************************************)
Server1 == [ID |-> "ddl_id_1", IP |-> "10.123.124.10", Port |-> 32457]
Server2 ==
    [ID |-> "ddl_id_2", IP |-> "ABCD:EF01:2345:6789:ABCD:EF01:2345:6789",
     Port |-> 65535]
AllServers == {Server1, Server2}
IPv6Addrs == {Server2.IP}

\* disttaskutil.GenerateExecID: ip:port, an IPv6 address in brackets.
GenerateExecID(ip, port) ==
    IF ip \in IPv6Addrs
    THEN "[" \o ip \o "]:" \o ToString(port)
    ELSE ip \o ":" \o ToString(port)

\* disttaskutil.MatchServerInfo over a list of server infos.
MatchServerInfo(infos, schedulerID) ==
    \E i \in 1..Len(infos) :
        GenerateExecID(infos[i].IP, infos[i].Port) = schedulerID

\* All orders in which the elements of a finite set can be listed.
RECURSIVE Orders(_)
Orders(S) ==
    IF S = {} THEN { << >> }
    ELSE UNION { { <<x>> \o r : r \in Orders(S \ {x}) } : x \in S }

(***************************************************************************)
(* State.                                                                  *)
(***************************************************************************)
VARIABLES
    tasks,        \* storage: global_task rows, id = index
    subtasks,     \* storage: subtask rows, id = index
    serverInfos,  \* membership source: the set of live servers
    callTime,     \* planErrDispatcher.callTime
    runningTasks, \* Manager: ids of the tasks that have a driver
    dsp,          \* the drivers: task id -> dispatcher fields and position
    ctxDone,      \* the manager's context is cancelled
    obs,          \* what the last driver or manager step called and returned
    fnIn,         \* input of the function a function-level specification applies
    fnOut,        \* its result
    seen,         \* Manager: the tasks each loop has read and not yet gone through
    analyze       \* AnalyzeExec.Next: its channels, its workers and its position

mainVars ==
    << tasks, subtasks, serverInfos, callTime, runningTasks, dsp, ctxDone, obs >>
vars ==
    << tasks, subtasks, serverInfos, callTime, runningTasks, dsp, ctxDone, obs,
       fnIn, fnOut, seen, analyze >>

TaskIDs == 1..(IF MaxTasks > MaxManagerTasks THEN MaxTasks ELSE MaxManagerTasks)


(***************************************************************************)
(* Task-type strategies: the Dispatcher implementations of the test        *)
(* suites, keyed by the task type they are registered under.               *)
(***************************************************************************)
TypeNumberExample == "task_example"
TypeTest == "Example"
TypePlanErr == "plan_err"
TypePlanNotRetryable == "plan_not_retryable"
TypeUnsupported == "unregistered"
RegisteredTypes ==
    { TypeNumberExample, TypeTest, TypePlanErr, TypePlanNotRetryable }
TaskTypes == RegisteredTypes \cup { TypeUnsupported }

NoErr == ""
NilImpl == "nil"

\* GetTaskDispatcher: the registry lookup, nil for an unregistered type.
GetTaskDispatcher(type) ==
    IF type \in RegisteredTypes THEN type ELSE NilImpl

\* numberExampleDispatcher.OnNextStage resetting the step when the last
\* stage is done.
NumberExampleOnNextStageMutant(task) ==
    LET step0 == IF task.state = TaskStatePending THEN StepInit ELSE task.step
    IN  IF step0 = StepInit
        THEN [ metas |-> [ i \in 1..subtaskCnt |-> "1" ], err |-> NoErr,
               step |-> StepOne ]
        ELSE [ metas |-> << >>, err |-> NoErr, step |-> StepInit ]

\* numberExampleDispatcher.OnNextStage.
NumberExampleOnNextStage(task) ==
    LET step0 == IF task.state = TaskStatePending THEN StepInit ELSE task.step
    IN  CASE step0 = StepInit ->
               [ metas |-> [ i \in 1..subtaskCnt |-> "1" ], err |-> NoErr,
                 step |-> StepOne ]
          [] step0 = StepOne ->
               [ metas |-> << >>, err |-> NoErr, step |-> step0 ]
          [] OTHER ->
               [ metas |-> << >>, err |-> "unknown step", step |-> step0 ]

\* planErrDispatcher.OnNextStage; ct is the receiver's callTime.
PlanErrOnNextStage(task, ct) ==
    IF task.state = TaskStatePending
    THEN IF ct = 0
         THEN [ metas |-> << >>, err |-> "retryable err", step |-> task.step,
                callTime |-> ct + 1 ]
         ELSE [ metas |-> << "task1", "task2", "task3" >>, err |-> NoErr,
                step |-> StepOne, callTime |-> ct ]
    ELSE IF task.step = StepOne
         THEN [ metas |-> << "task4" >>, err |-> NoErr, step |-> StepTwo,
                callTime |-> ct ]
         ELSE [ metas |-> << >>, err |-> NoErr, step |-> task.step,
                callTime |-> ct ]

\* impl.OnNextStage: metas, error, the step the callback leaves in the task,
\* and the strategy's own state.
OnNextStage(impl, task, ct) ==
    CASE impl = TypeNumberExample ->
           LET r == NumberExampleOnNextStage(task)
           IN  [ metas |-> r.metas, err |-> r.err, step |-> r.step,
                 callTime |-> ct ]
      [] impl = TypePlanErr -> PlanErrOnNextStage(task, ct)
      [] impl = TypePlanNotRetryable ->
           [ metas |-> << >>, err |-> "not retryable err", step |-> task.step,
             callTime |-> ct ]
      [] OTHER ->
           [ metas |-> << >>, err |-> NoErr, step |-> task.step,
             callTime |-> ct ]

\* impl.OnErrStage: the single rollback meta, or an error.
OnErrStage(impl, ct) ==
    CASE impl = TypePlanErr ->
           IF ct = 1
           THEN [ meta |-> "", err |-> "not retryable err", callTime |-> ct + 1 ]
           ELSE [ meta |-> "planErrTask", err |-> NoErr, callTime |-> ct ]
      [] impl = TypePlanNotRetryable ->
           [ meta |-> "", err |-> "not retryable err", callTime |-> ct ]
      [] OTHER -> [ meta |-> "", err |-> NoErr, callTime |-> ct ]

\* impl.IsRetryableErr.
IsRetryableErr(impl, err) == impl # TypePlanNotRetryable

\* GenerateSchedulerNodes: the live servers in map-iteration order, an error
\* when there is none.  The set of possible results.
GenerateSchedulerNodes(live) ==
    IF live = {}
    THEN { [ err |-> "not found instance", nodes |-> << >> ] }
    ELSE { [ err |-> NoErr, nodes |-> o ] : o \in Orders(live) }

\* mockedAllServerInfos as the test file initialises it.
mockedAllServerInfos == << >>

\* impl.GetEligibleInstances: the set of possible results.
GetEligibleInstances(impl, live) ==
    IF impl = TypeTest
    THEN { [ err |-> NoErr, nodes |-> mockedAllServerInfos ] }
    ELSE GenerateSchedulerNodes(live)


(***************************************************************************)
(* Storage (storage.TaskManager): the operations the dispatcher calls, on  *)
(* the rows held in tasks and subtasks.                                    *)
(***************************************************************************)
Range(s) == { s[i] : i \in 1..Len(s) }

\* AddNewGlobalTask: the row of a newly submitted task.
NewTaskRow(type, concurrency) ==
    [ type |-> type, state |-> TaskStatePending, step |-> StepInit,
      concurrency |-> concurrency, error |-> NoErr ]

\* GetGlobalTaskByID: the task as the driver holds it in memory.
GetGlobalTaskByID(id) ==
    [ id |-> id, type |-> tasks[id].type, state |-> tasks[id].state,
      step |-> tasks[id].step, concurrency |-> tasks[id].concurrency,
      error |-> tasks[id].error ]

\* CancelGlobalTask: pending or running becomes cancelling.
CancelGlobalTask(id) ==
    IF tasks[id].state \in { TaskStatePending, TaskStateRunning }
    THEN [ tasks EXCEPT ![id].state = TaskStateCancelling ]
    ELSE tasks

\* The inserted rows, every one of them in revert_pending.
InsertedSubtasksAllRevert(gTask, newSubTasks) ==
    [ i \in 1..Len(newSubTasks) |->
        [ task |-> gTask.id, step |-> gTask.step,
          exec |-> newSubTasks[i].exec, state |-> TaskStateRevertPending,
          meta |-> newSubTasks[i].meta ] ]

\* The rows UpdateGlobalTaskAndAddSubTasks inserts for the given subtasks.
InsertedSubtasks(gTask, newSubTasks) ==
    [ i \in 1..Len(newSubTasks) |->
        [ task |-> gTask.id, step |-> gTask.step,
          exec |-> newSubTasks[i].exec,
          state |-> IF gTask.state = TaskStateReverting
                    THEN TaskStateRevertPending ELSE TaskStatePending,
          meta |-> newSubTasks[i].meta ] ]

\* UpdateGlobalTaskAndAddSubTasks in one transaction; transient says that
\* the transaction fails for a reason outside the rows (lock, network).
UpdateGlobalTaskAndAddSubTasks(gTask, newSubTasks, prevState, transient) ==
    IF transient
    THEN [ retryable |-> TRUE, err |-> "transient storage error",
           tasks |-> tasks, subtasks |-> subtasks ]
    ELSE IF tasks[gTask.id].state # prevState
    THEN [ retryable |-> FALSE, err |-> "invalid task state transition",
           tasks |-> tasks, subtasks |-> subtasks ]
    ELSE [ retryable |-> FALSE, err |-> NoErr,
           tasks |-> [ tasks EXCEPT ![gTask.id] =
                         [ type |-> @.type, state |-> gTask.state,
                           step |-> gTask.step,
                           concurrency |-> gTask.concurrency,
                           error |-> gTask.error ] ],
           subtasks |-> subtasks \o InsertedSubtasks(gTask, newSubTasks) ]

\* GetSubtaskInStatesCnt.
GetSubtaskInStatesCnt(id, states) ==
    Cardinality({ i \in 1..Len(subtasks) :
                    subtasks[i].task = id /\ subtasks[i].state \in states })

\* CollectSubTaskError: the subtasks of the task that ended in error.
CollectSubTaskError(id) ==
    { i \in 1..Len(subtasks) :
        /\ subtasks[i].task = id
        /\ subtasks[i].state \in { TaskStateFailed, TaskStateCanceled } }

\* s without repetitions, the first occurrence kept.
RECURSIVE Distinct(_)
Distinct(s) ==
    IF s = << >> THEN << >>
    ELSE LET r == Distinct(SubSeq(s, 1, Len(s) - 1))
             x == s[Len(s)]
         IN  IF x \in Range(r) THEN r ELSE Append(r, x)

\* GetSchedulerIDsByTaskID: the distinct exec ids on the task's subtask rows.
GetSchedulerIDsByTaskID(id) ==
    LET mine(st) == st.task = id
        rows == SelectSeq(subtasks, mine)
    IN  Distinct([ i \in 1..Len(rows) |-> rows[i].exec ])

\* UpdateFailedSchedulerIDs: the exec id of the task's rows, old to new.
UpdateFailedSchedulerIDs(id, replaceNodes) ==
    [ i \in 1..Len(subtasks) |->
        IF subtasks[i].task = id /\ subtasks[i].exec \in DOMAIN replaceNodes
        THEN [ subtasks[i] EXCEPT !.exec = replaceNodes[subtasks[i].exec] ]
        ELSE subtasks[i] ]


(***************************************************************************)
(* The per-task dispatcher (driver).                                       *)
(***************************************************************************)
NilTask ==
    [ id |-> 0, type |-> "", state |-> "", step |-> 0, concurrency |-> 0,
      error |-> NoErr ]
NoUpd == [ subs |-> << >>, retry |-> 0, prev |-> "" ]

\* No dispatcher exists for the task.  loops is the number of schedule loops
\* that were started for the task and have not returned.
NoDriver ==
    [ pc |-> "none", impl |-> NilImpl, task |-> NilTask, taskNodes |-> << >>,
      liveNodes |-> << >>, liveNodeFetchTick |-> 0, upd |-> NoUpd,
      loops |-> 0 ]

\* The struct newDispatcher builds; its loop waits for the first tick.
NewDriver(task) ==
    [ pc |-> "idle", impl |-> GetTaskDispatcher(task.type), task |-> task,
      taskNodes |-> << >>, liveNodes |-> << >>, liveNodeFetchTick |-> 0,
      upd |-> NoUpd, loops |-> 1 ]

\* proto.NewSubtask.
NewSubtask(taskID, type, schedulerID, meta) ==
    [ task |-> taskID, type |-> type, exec |-> schedulerID, meta |-> meta ]

\* What a state handler leaves behind: the dispatcher fields, the error it
\* returns, the strategy's state, the callbacks it invoked and the subtask
\* rows.
Out(d, err, ct, cbs) ==
    [ d |-> d, err |-> err, ct |-> ct, cbs |-> cbs, subs |-> subtasks ]

\* The handler returns to the schedule loop.
Return(d) == [ d EXCEPT !.pc = "idle", !.upd = NoUpd ]

\* updateTask without the check of the transform.
updateTaskNoVerify(d, taskState, newSubTasks, retryTimes, ct, cbs) ==
    Out([ d EXCEPT !.task.state = taskState, !.pc = "update",
                   !.upd = [ subs |-> newSubTasks, retry |-> retryTimes,
                             prev |-> d.task.state ] ],
        NoErr, ct, cbs)

\* updateTask up to its first storage call: the state is set in memory, an
\* invalid transform returns an error, a valid one goes on to the storage
\* loop with the subtasks, the retry count and the previous state.
updateTask(d, taskState, newSubTasks, retryTimes, ct, cbs) ==
    LET prevState == d.task.state
        d1 == [ d EXCEPT !.task.state = taskState ]
    IN  IF ~VerifyTaskStateTransform(prevState, taskState)
        THEN Out(Return(d1), "invalid task state transform", ct, cbs)
        ELSE Out([ d1 EXCEPT !.pc = "update",
                             !.upd = [ subs |-> newSubTasks,
                                       retry |-> retryTimes,
                                       prev |-> prevState ] ],
                 NoErr, ct, cbs)

\* The subtasks dispatchSubTask builds: meta i goes to node i mod K.
RoundRobinMutant(task, metas, serverNodes) ==
    [ i \in 1..Len(metas) |->
        NewSubtask(task.id, task.type,
                   GenerateExecID(serverNodes[1].IP, serverNodes[1].Port),
                   metas[i]) ]

RoundRobin(task, metas, serverNodes) ==
    [ i \in 1..Len(metas) |->
        LET pos == (i - 1) % Len(serverNodes)
        IN  NewSubtask(task.id, task.type,
                       GenerateExecID(serverNodes[pos + 1].IP,
                                      serverNodes[pos + 1].Port),
                       metas[i]) ]

\* The adjustment of the concurrency without the upper limit.
AdjustConcurrencyNoClamp(c) ==
    IF c = 0 THEN DefaultSubtaskConcurrency ELSE c

\* dispatchSubTask's adjustment of the task's concurrency.
AdjustConcurrency(c) ==
    LET c1 == IF c = 0 THEN DefaultSubtaskConcurrency ELSE c
    IN  IF c1 > MaxSubtaskConcurrency THEN MaxSubtaskConcurrency ELSE c1

\* dispatchSubTask without the check for an empty list of instances.
dispatchSubTaskNoNodeCheck(d, metas, ct, cbs) ==
    LET d1 == [ d EXCEPT !.task.concurrency = AdjustConcurrency(@) ]
        retryTimes == IF d1.task.state = TaskStatePending
                      THEN nonRetrySQLTime ELSE retrySQLTimes
    IN  IF Len(metas) = 0
        THEN { updateTask(d1, TaskStateSucceed, << >>, retryTimes, ct, cbs) }
        ELSE { IF r.err # NoErr
               THEN Out(Return(d1), r.err, ct, cbs \cup {"GetEligibleInstances"})
               ELSE updateTask(
                        [ d1 EXCEPT !.taskNodes =
                            [ i \in 1..Len(r.nodes) |->
                                GenerateExecID(r.nodes[i].IP, r.nodes[i].Port) ] ],
                        TaskStateRunning,
                        IF Len(r.nodes) = 0 THEN << >>
                        ELSE RoundRobin(d1.task, metas, r.nodes),
                        retrySQLTimes, ct, cbs \cup {"GetEligibleInstances"})
               : r \in GetEligibleInstances(d1.impl, serverInfos) }

\* dispatchSubTask that selects the eligible instances before it looks at
\* the metas.
dispatchSubTaskNodesFirst(d, metas, ct, cbs) ==
    LET d1 == [ d EXCEPT !.task.concurrency = AdjustConcurrency(@) ]
        retryTimes == IF d1.task.state = TaskStatePending
                      THEN nonRetrySQLTime ELSE retrySQLTimes
    IN  { IF r.err # NoErr
          THEN Out(Return(d1), r.err, ct, cbs \cup {"GetEligibleInstances"})
          ELSE IF Len(r.nodes) = 0
          THEN Out(Return(d1), "no available TiDB node to dispatch subtasks",
                   ct, cbs \cup {"GetEligibleInstances"})
          ELSE IF Len(metas) = 0
          THEN updateTask(d1, TaskStateSucceed, << >>, retryTimes, ct,
                          cbs \cup {"GetEligibleInstances"})
          ELSE updateTask(
                   [ d1 EXCEPT !.taskNodes =
                       [ i \in 1..Len(r.nodes) |->
                           GenerateExecID(r.nodes[i].IP, r.nodes[i].Port) ] ],
                   TaskStateRunning,
                   RoundRobin(d1.task, metas, r.nodes),
                   retrySQLTimes, ct, cbs \cup {"GetEligibleInstances"})
          : r \in GetEligibleInstances(d1.impl, serverInfos) }

\* dispatchSubTask: the set of possible outcomes.
dispatchSubTask(d, metas, ct, cbs) ==
    LET d1 == [ d EXCEPT !.task.concurrency = AdjustConcurrency(@) ]
        retryTimes == IF d1.task.state = TaskStatePending
                      THEN nonRetrySQLTime ELSE retrySQLTimes
    IN  IF Len(metas) = 0
        THEN { updateTask(d1, TaskStateSucceed, << >>, retryTimes, ct, cbs) }
        ELSE { IF r.err # NoErr
               THEN Out(Return(d1), r.err, ct, cbs \cup {"GetEligibleInstances"})
               ELSE IF Len(r.nodes) = 0
               THEN Out(Return(d1), "no available TiDB node to dispatch subtasks",
                        ct, cbs \cup {"GetEligibleInstances"})
               ELSE updateTask(
                        [ d1 EXCEPT !.taskNodes =
                            [ i \in 1..Len(r.nodes) |->
                                GenerateExecID(r.nodes[i].IP, r.nodes[i].Port) ] ],
                        TaskStateRunning,
                        RoundRobin(d1.task, metas, r.nodes),
                        retrySQLTimes, ct, cbs \cup {"GetEligibleInstances"})
               : r \in GetEligibleInstances(d1.impl, serverInfos) }

\* handlePlanErr that takes every error as retryable.
handlePlanErrAllRetryable(d, err, ct, cbs) ==
    Out(Return(d), err, ct, cbs \cup {"IsRetryableErr"})

\* handlePlanErr that takes no error as retryable.
handlePlanErrNoneRetryable(d, err, ct, cbs) ==
    updateTask([ d EXCEPT !.task.error = err ], TaskStateFailed, << >>,
               retrySQLTimes, ct, cbs \cup {"IsRetryableErr"})

\* handlePlanErr.
handlePlanErr(d, err, ct, cbs) ==
    IF IsRetryableErr(d.impl, err)
    THEN Out(Return(d), err, ct, cbs \cup {"IsRetryableErr"})
    ELSE updateTask([ d EXCEPT !.task.error = err ], TaskStateFailed, << >>,
                    retrySQLTimes, ct, cbs \cup {"IsRetryableErr"})

\* onNextStage: the set of possible outcomes.
onNextStage(d) ==
    LET r == OnNextStage(d.impl, d.task, callTime)
        d1 == [ d EXCEPT !.task.step = r.step ]
    IN  IF r.err # NoErr
        THEN { handlePlanErr(d1, r.err, r.callTime, {"OnNextStage"}) }
        ELSE dispatchSubTask(d1, r.metas, r.callTime, {"OnNextStage"})

\* GetAllSchedulerIDs that returns every scheduler id of the task's rows,
\* eligible or not.
GetAllSchedulerIDsNoMatch(impl, taskID) ==
    { IF r.err # NoErr
      THEN [ ids |-> << >>, err |-> r.err ]
      ELSE IF Len(r.nodes) = 0
      THEN [ ids |-> << >>, err |-> NoErr ]
      ELSE [ ids |-> GetSchedulerIDsByTaskID(taskID), err |-> NoErr ]
      : r \in GetEligibleInstances(impl, serverInfos) }

\* GetAllSchedulerIDs: the set of possible results.
GetAllSchedulerIDs(impl, taskID) ==
    { IF r.err # NoErr
      THEN [ ids |-> << >>, err |-> r.err ]
      ELSE IF Len(r.nodes) = 0
      THEN [ ids |-> << >>, err |-> NoErr ]
      ELSE LET ok(id) == MatchServerInfo(r.nodes, id)
           IN  [ ids |-> SelectSeq(GetSchedulerIDsByTaskID(taskID), ok),
                 err |-> NoErr ]
      : r \in GetEligibleInstances(impl, serverInfos) }

\* dispatchSubTask4Revert that writes reverting without revert subtasks.
dispatchSubTask4RevertNoSubtasks(d, meta, ct, cbs) ==
    { IF g.err # NoErr
      THEN Out(Return(d), g.err, ct, cbs \cup {"GetEligibleInstances"})
      ELSE updateTask(d, TaskStateReverting, << >>,
                      retrySQLTimes, ct, cbs \cup {"GetEligibleInstances"})
      : g \in GetAllSchedulerIDs(d.impl, d.task.id) }

\* dispatchSubTask4Revert.
dispatchSubTask4Revert(d, meta, ct, cbs) ==
    { IF g.err # NoErr
      THEN Out(Return(d), g.err, ct, cbs \cup {"GetEligibleInstances"})
      ELSE updateTask(d, TaskStateReverting,
                      [ i \in 1..Len(g.ids) |->
                          NewSubtask(d.task.id, d.task.type, g.ids[i], meta) ],
                      retrySQLTimes, ct, cbs \cup {"GetEligibleInstances"})
      : g \in GetAllSchedulerIDs(d.impl, d.task.id) }

\* onErrHandlingStage that fails the task when OnErrStage returns an error.
onErrHandlingStageFailOnErr(d) ==
    LET r == OnErrStage(d.impl, callTime)
    IN  IF r.err # NoErr
        THEN { updateTask([ d EXCEPT !.task.error = r.err ], TaskStateFailed,
                          << >>, retrySQLTimes, r.callTime, {"OnErrStage"}) }
        ELSE dispatchSubTask4Revert(d, r.meta, r.callTime, {"OnErrStage"})

\* onErrHandlingStage.
onErrHandlingStage(d) ==
    LET r == OnErrStage(d.impl, callTime)
    IN  IF r.err # NoErr
        THEN { Out(Return(d), r.err, r.callTime, {"OnErrStage"}) }
        ELSE dispatchSubTask4Revert(d, r.meta, r.callTime, {"OnErrStage"})

\* onCancelling that ends the cancel by writing canceled.
onCancellingToCanceled(d) ==
    { updateTask(d, TaskStateCanceled, << >>, retrySQLTimes, callTime, {}) }

\* onCancelling that returns without handling the cancel.
onCancellingMutant(d) == { Out(Return(d), NoErr, callTime, {}) }

\* onCancelling.
onCancelling(d) == onErrHandlingStage(d)

\* onPending.
onPending(d) == onNextStage(d)

\* onReverting.
onRevertingMutant(d) ==
    { updateTask(d, TaskStateReverted, << >>, retrySQLTimes, callTime, {}) }

onReverting(d) ==
    LET cnt == GetSubtaskInStatesCnt(d.task.id,
                   { TaskStateRevertPending, TaskStateReverting })
    IN  IF cnt = 0
        THEN { updateTask(d, TaskStateReverted, << >>, retrySQLTimes,
                          callTime, {}) }
        ELSE { Out(Return(d), NoErr, callTime, {"OnTick"}) }


\* The refresh of liveNodes inside replaceDeadNodesIfAny: the live servers
\* whose ID is the ID of an eligible instance, in the order of the live list.
RefreshLiveNodes(d) ==
    { IF g.err # NoErr
      THEN [ err |-> g.err, liveNodes |-> d.liveNodes ]
      ELSE IF e.err # NoErr
      THEN [ err |-> e.err, liveNodes |-> d.liveNodes ]
      ELSE LET found(m) == \E i \in 1..Len(e.nodes) : e.nodes[i].ID = m.ID
           IN  [ err |-> NoErr, liveNodes |-> SelectSeq(g.nodes, found) ]
      : g \in GenerateSchedulerNodes(serverInfos),
        e \in GetEligibleInstances(d.impl, serverInfos) }

\* The loop that replaces the local cache: for every replaced id, its first
\* entry in taskNodes.
ReplaceLocalCache(taskNodes, replaceNodes) ==
    [ m \in 1..Len(taskNodes) |->
        IF /\ taskNodes[m] \in DOMAIN replaceNodes
           /\ \A j \in 1..(m - 1) : taskNodes[j] # taskNodes[m]
        THEN replaceNodes[taskNodes[m]]
        ELSE taskNodes[m] ]

\* The second half of replaceDeadNodesIfAny that replaces every id of
\* taskNodes, matched by a live node or not.
ReplaceNodesEveryId(d) ==
    IF Len(d.liveNodes) = 0
    THEN { [ d |-> Return(d), err |-> NoErr, subs |-> subtasks ] }
    ELSE LET dead == Range(d.taskNodes)
         IN  { LET replaceNodes ==
                     [ k \in dead |->
                         GenerateExecID(d.liveNodes[f[k]].IP,
                                        d.liveNodes[f[k]].Port) ]
               IN  [ d |-> Return([ d EXCEPT !.taskNodes =
                                     ReplaceLocalCache(@, replaceNodes) ]),
                     err |-> NoErr,
                     subs |-> UpdateFailedSchedulerIDs(d.task.id, replaceNodes) ]
               : f \in [ dead -> 1..Len(d.liveNodes) ] }
             \cup { [ d |-> Return(d), err |-> "transient storage error",
                      subs |-> subtasks ] }

\* The second half of replaceDeadNodesIfAny, with liveNodes settled: every
\* choice of a random live node for every dead id, and the failure of
\* UpdateFailedSchedulerIDs.
ReplaceNodes(d) ==
    IF Len(d.liveNodes) = 0
    THEN { [ d |-> Return(d), err |-> NoErr, subs |-> subtasks ] }
    ELSE LET dead == { id \in Range(d.taskNodes) :
                         ~MatchServerInfo(d.liveNodes, id) }
         IN  { LET replaceNodes ==
                     [ k \in dead |->
                         GenerateExecID(d.liveNodes[f[k]].IP,
                                        d.liveNodes[f[k]].Port) ]
               IN  [ d |-> Return([ d EXCEPT !.taskNodes =
                                     ReplaceLocalCache(@, replaceNodes) ]),
                     err |-> NoErr,
                     subs |-> UpdateFailedSchedulerIDs(d.task.id, replaceNodes) ]
               : f \in [ dead -> 1..Len(d.liveNodes) ] }
             \cup { [ d |-> Return(d), err |-> "transient storage error",
                      subs |-> subtasks ] }

\* replaceDeadNodesIfAny that refreshes liveNodes on every call.
replaceDeadNodesIfAnyEveryTick(d) ==
    IF Len(d.taskNodes) = 0
    THEN { [ d |-> Return(d), subs |-> subtasks,
             err |-> "len(d.taskNodes) == 0, onNextStage is not invoked before onRunning" ] }
    ELSE LET d1 == [ d EXCEPT !.liveNodeFetchTick = 0 ]
         IN  UNION { IF lr.err # NoErr
                     THEN { [ d |-> Return(d1), err |-> lr.err,
                              subs |-> subtasks ] }
                     ELSE ReplaceNodes([ d1 EXCEPT !.liveNodes = lr.liveNodes ])
                     : lr \in RefreshLiveNodes(d1) }

\* replaceDeadNodesIfAny: the set of possible outcomes.
replaceDeadNodesIfAny(d) ==
    IF Len(d.taskNodes) = 0
    THEN { [ d |-> Return(d), subs |-> subtasks,
             err |-> "len(d.taskNodes) == 0, onNextStage is not invoked before onRunning" ] }
    ELSE LET tick == d.liveNodeFetchTick + 1
             fetch == tick = DefaultLiveNodesCheckInterval
             d1 == [ d EXCEPT !.liveNodeFetchTick = IF fetch THEN 0 ELSE tick ]
         IN  IF fetch
             THEN UNION { IF lr.err # NoErr
                          THEN { [ d |-> Return(d1), err |-> lr.err,
                                   subs |-> subtasks ] }
                          ELSE ReplaceNodes([ d1 EXCEPT !.liveNodes = lr.liveNodes ])
                          : lr \in RefreshLiveNodes(d1) }
             ELSE ReplaceNodes(d1)

\* onRunning that ignores the collected subtask errors.
onRunningCollectMutant(d) ==
    { Out([ d EXCEPT !.pc = "count" ], NoErr, callTime, {}) }

\* onRunning up to and including CollectSubTaskError.
onRunningCollect(d) ==
    IF CollectSubTaskError(d.task.id) # {}
    THEN onErrHandlingStage(d)
    ELSE { Out([ d EXCEPT !.pc = "count" ], NoErr, callTime, {}) }

\* onRunning from GetSubtaskInStatesCnt on.
onRunningCountMutant(d) == onNextStage(d)

onRunningCount(d) ==
    LET cnt == GetSubtaskInStatesCnt(d.task.id,
                   { TaskStatePending, TaskStateRunning })
    IN  IF cnt = 0
        THEN onNextStage(d)
        ELSE { [ d |-> r.d, err |-> r.err, ct |-> callTime,
                 cbs |-> IF r.err = NoErr THEN {"OnTick"} ELSE {},
                 subs |-> r.subs ]
               : r \in replaceDeadNodesIfAny(d) }

\* The storage loop of updateTask that goes on after an error the storage
\* reports as not retryable.
UpdateLoopMutant(gTask, newSubTasks, prevState, retryTimes) ==
    LET res(b) == UpdateGlobalTaskAndAddSubTasks(gTask, newSubTasks,
                                                 prevState, b)
        stop(b) == res(b).err = NoErr
    IN  { LET n == IF \E i \in 1..retryTimes : stop(f[i])
                   THEN CHOOSE i \in 1..retryTimes :
                            /\ stop(f[i])
                            /\ \A j \in 1..(i - 1) : ~stop(f[j])
                   ELSE retryTimes
          IN  [ calls |-> n,
                rejected |-> Cardinality({ j \in 1..n :
                                 ~f[j] /\ res(f[j]).err # NoErr }),
                r |-> res(f[n]) ]
          : f \in [ 1..retryTimes -> BOOLEAN ] }

\* The storage loop of updateTask that gives up after its first attempt.
UpdateLoopOnce(gTask, newSubTasks, prevState, retryTimes) ==
    LET res(b) == UpdateGlobalTaskAndAddSubTasks(gTask, newSubTasks,
                                                 prevState, b)
    IN  { [ calls |-> 1,
            rejected |-> IF ~f[1] /\ res(f[1]).err # NoErr THEN 1 ELSE 0,
            r |-> res(f[1]) ]
          : f \in [ 1..retryTimes -> BOOLEAN ] }

\* The storage loop of updateTask: for every course f of transient failures
\* of the attempts, the loop makes attempts until one returns no error or an
\* error that is not retryable, at most retryTimes of them.  calls is the
\* number of attempts, rejected the number of them the storage refused for
\* the rows' sake, r the result of the last attempt.
UpdateLoop(gTask, newSubTasks, prevState, retryTimes) ==
    LET res(b) == UpdateGlobalTaskAndAddSubTasks(gTask, newSubTasks,
                                                 prevState, b)
        stop(b) == res(b).err = NoErr \/ ~res(b).retryable
    IN  { LET n == IF \E i \in 1..retryTimes : stop(f[i])
                   THEN CHOOSE i \in 1..retryTimes :
                            /\ stop(f[i])
                            /\ \A j \in 1..(i - 1) : ~stop(f[j])
                   ELSE retryTimes
          IN  [ calls |-> n,
                rejected |-> Cardinality({ j \in 1..n :
                                 ~f[j] /\ res(f[j]).err # NoErr }),
                r |-> res(f[n]) ]
          : f \in [ 1..retryTimes -> BOOLEAN ] }

(***************************************************************************)
(* Initial state: an empty task table, every server alive, no driver.     *)
(***************************************************************************)
\* No AnalyzeExec.Next is under way.
NoAnalyze ==
    [ main |-> "none", tasks |-> 0, concurrency |-> 0, sent |-> 0,
      closed |-> FALSE, taskCh |-> << >>, resultsCh |-> << >>,
      worker |-> << >> ]

\* Neither manager loop holds a list of tasks.
NoSeen == [ dispatch |-> {}, detect |-> {} ]

NoObs ==
    [ id |-> 0, op |-> "none", cbs |-> {}, calls |-> 0, rejected |-> 0,
      err |-> NoErr ]

MainInit ==
    /\ tasks = << >>
    /\ subtasks = << >>
    /\ serverInfos = AllServers
    /\ callTime = 0
    /\ runningTasks = {}
    /\ dsp = [ t \in TaskIDs |-> NoDriver ]
    /\ ctxDone = FALSE
    /\ obs = NoObs
    /\ seen = NoSeen
    /\ analyze = NoAnalyze

Init ==
    /\ MainInit
    /\ fnIn = << TaskStatePending, TaskStatePending >>
    /\ fnOut = [ done |-> FALSE, res |-> FALSE ]

(***************************************************************************)
(* External callers: submission, cancellation, the subtask executors and   *)
(* the membership source.                                                  *)
(***************************************************************************)
\* AddNewGlobalTask(key, type, 0, nil), as the tests submit tasks.
Submit(type) ==
    /\ Len(tasks) < MaxTasks
    /\ tasks' = Append(tasks, NewTaskRow(type, 0))
    /\ UNCHANGED << subtasks, serverInfos, callTime, runningTasks, dsp,
                    ctxDone, obs, fnIn, fnOut,
                    seen, analyze >>

\* CancelGlobalTask by an external caller.
CancelTask(t) ==
    /\ t \in 1..Len(tasks)
    /\ tasks[t].state \in { TaskStatePending, TaskStateRunning }
    /\ tasks' = CancelGlobalTask(t)
    /\ UNCHANGED << subtasks, serverInfos, callTime, runningTasks, dsp,
                    ctxDone, obs, fnIn, fnOut,
                    seen, analyze >>

\* The states an executor moves a subtask to (UpdateSubtaskStateAndError).
WorkerNext(state) ==
    CASE state = TaskStatePending -> { TaskStateRunning }
      [] state = TaskStateRunning -> { TaskStateSucceed, TaskStateFailed }
      [] state = TaskStateRevertPending -> { TaskStateReverting }
      [] state = TaskStateReverting -> { TaskStateReverted }
      [] OTHER -> {}

WorkerUpdate(i) ==
    /\ i \in 1..Len(subtasks)
    /\ \E st \in WorkerNext(subtasks[i].state) :
           subtasks' = [ subtasks EXCEPT ![i].state = st ]
    /\ UNCHANGED << tasks, serverInfos, callTime, runningTasks, dsp, ctxDone,
                    obs, fnIn, fnOut,
                    seen, analyze >>

\* A server leaves the membership source.
ServerDown(s) ==
    /\ s \in serverInfos
    /\ Cardinality(AllServers \ serverInfos) < MaxServerDown
    /\ serverInfos' = serverInfos \ {s}
    /\ UNCHANGED << tasks, subtasks, callTime, runningTasks, dsp, ctxDone,
                    obs, fnIn, fnOut,
                    seen, analyze >>

(***************************************************************************)
(* The schedule loop of a driver.                                          *)
(***************************************************************************)
\* The finished case of the switch without failed.
FinishedStatesNoFailed == { TaskStateSucceed, TaskStateReverted }

\* The finished case of the switch without succeed.
FinishedStatesNoSucceed == { TaskStateReverted, TaskStateFailed }

FinishedStates == { TaskStateSucceed, TaskStateReverted, TaskStateFailed }

\* The outcomes of the state handler scheduleTask selects for the task.
Handle(d) ==
    CASE d.task.state = TaskStateCancelling -> onCancelling(d)
      [] d.task.state = TaskStateReverting -> onReverting(d)
      [] d.task.state = TaskStatePending -> onPending(d)
      [] d.task.state = TaskStateRunning -> onRunningCollect(d)
      [] OTHER -> { Out(Return(d), NoErr, callTime, {}) }

HandlerName(state) ==
    CASE state = TaskStateCancelling -> "onCancelling"
      [] state = TaskStateReverting -> "onReverting"
      [] state = TaskStatePending -> "onPending"
      [] state = TaskStateRunning -> "onRunning"
      [] OTHER -> "none"

\* The driver leaves scheduleTask; the manager drops it (delRunningTask).
Exit(t) ==
    /\ dsp' = [ dsp EXCEPT ![t] = IF @.loops > 1
                                  THEN [ @ EXCEPT !.loops = @ - 1 ]
                                  ELSE NoDriver ]
    /\ runningTasks' = runningTasks \ {t}
    /\ obs' = [ id |-> t, op |-> "exit", cbs |-> {}, calls |-> 0,
                rejected |-> 0, err |-> NoErr ]
    /\ UNCHANGED << tasks, subtasks, serverInfos, callTime, ctxDone, fnIn, fnOut,
                    seen, analyze >>

\* A handler's outcome o becomes the state.
Apply(t, o, op) ==
    /\ dsp' = [ dsp EXCEPT ![t] = o.d ]
    /\ callTime' = o.ct
    /\ subtasks' = o.subs
    /\ obs' = [ id |-> t, op |-> op, cbs |-> o.cbs, calls |-> 0,
                rejected |-> 0, err |-> o.err ]
    /\ UNCHANGED << tasks, serverInfos, runningTasks, ctxDone, fnIn, fnOut,
                    seen, analyze >>

\* A tick of a schedule loop that returns when a handler returns an error.
TickExitOnErr(t) ==
    /\ dsp[t].pc = "idle"
    /\ LET d == [ dsp[t] EXCEPT !.task = GetGlobalTaskByID(t) ]
       IN  IF d.task.state \in FinishedStates
           THEN Exit(t)
           ELSE \E o \in Handle(d) :
                    IF o.err # NoErr
                    THEN Exit(t)
                    ELSE Apply(t, o, HandlerName(d.task.state))

\* A tick of scheduleTask: refreshTask, then the switch on the task state.
Tick(t) ==
    /\ dsp[t].pc = "idle"
    /\ LET d == [ dsp[t] EXCEPT !.task = GetGlobalTaskByID(t) ]
       IN  IF d.task.state \in FinishedStates
           THEN Exit(t)
           ELSE \E o \in Handle(d) : Apply(t, o, HandlerName(d.task.state))

\* onRunning goes on after CollectSubTaskError found no error.
Count(t) ==
    /\ dsp[t].pc = "count"
    /\ \E o \in onRunningCount(dsp[t]) : Apply(t, o, "onRunning")

\* updateTask's storage loop handing the storage the persisted state in
\* place of the state the driver had refreshed.
UpdateNoPrevState(t) ==
    /\ dsp[t].pc = "update"
    /\ \E u \in UpdateLoop(dsp[t].task, dsp[t].upd.subs, tasks[t].state,
                           dsp[t].upd.retry) :
           /\ tasks' = u.r.tasks
           /\ subtasks' = u.r.subtasks
           /\ obs' = [ id |-> t, op |-> "updateTask", cbs |-> {},
                       calls |-> u.calls, rejected |-> u.rejected,
                       err |-> u.r.err ]
    /\ dsp' = [ dsp EXCEPT ![t] = Return(@) ]
    /\ UNCHANGED << serverInfos, callTime, runningTasks, ctxDone, fnIn, fnOut,
                    seen, analyze >>

\* updateTask's storage loop.
Update(t) ==
    /\ dsp[t].pc = "update"
    /\ \E u \in UpdateLoop(dsp[t].task, dsp[t].upd.subs, dsp[t].upd.prev,
                           dsp[t].upd.retry) :
           /\ tasks' = u.r.tasks
           /\ subtasks' = u.r.subtasks
           /\ obs' = [ id |-> t, op |-> "updateTask", cbs |-> {},
                       calls |-> u.calls, rejected |-> u.rejected,
                       err |-> u.r.err ]
    /\ dsp' = [ dsp EXCEPT ![t] = Return(@) ]
    /\ UNCHANGED << serverInfos, callTime, runningTasks, ctxDone, fnIn, fnOut,
                    seen, analyze >>

\* A select that never takes the ctx.Done branch.
CtxExitNever(t) ==
    /\ ctxDone
    /\ dsp[t].pc = "idle"
    /\ FALSE
    /\ Exit(t)

\* The select of scheduleTask takes the ctx.Done branch.
CtxExit(t) ==
    /\ ctxDone
    /\ dsp[t].pc = "idle"
    /\ Exit(t)


(***************************************************************************)
(* The dispatcher manager.                                                 *)
(***************************************************************************)
\* GetRunningTaskCnt.
GetRunningTaskCnt == Cardinality(runningTasks)

\* The tasks a manager loop may give a driver: in one of the listed states
\* and not owned.
Unowned(states) ==
    { t \in 1..Len(tasks) : tasks[t].state \in states /\ t \notin runningTasks }

\* The cap on outstanding drivers.
SlotFreeMutant == TRUE

SlotFree == GetRunningTaskCnt < DefaultDispatchConcurrency

\* newDispatcher and, when it returns a dispatcher, the registration of the
\* driver whose loop then waits for its first tick.  With no strategy for
\* the type it writes the task to failed itself and starts no loop.
StartDispatcher(t) ==
    LET d == NewDriver(GetGlobalTaskByID(t))
    IN  IF d.impl = NilImpl
        THEN LET o == updateTask([ d EXCEPT !.task.error = "unsupported task type" ],
                                 TaskStateFailed, << >>, retrySQLTimes,
                                 callTime, {})
             IN  /\ IF o.err # NoErr
                    THEN /\ obs' = [ id |-> t, op |-> "newDispatcher",
                                     cbs |-> {}, calls |-> 0, rejected |-> 0,
                                     err |-> o.err ]
                         /\ UNCHANGED tasks
                    ELSE \E u \in UpdateLoop(o.d.task, o.d.upd.subs,
                                             o.d.upd.prev, o.d.upd.retry) :
                             /\ tasks' = u.r.tasks
                             /\ obs' = [ id |-> t, op |-> "newDispatcher",
                                         cbs |-> {}, calls |-> u.calls,
                                         rejected |-> u.rejected,
                                         err |-> u.r.err ]
                 /\ UNCHANGED << subtasks, serverInfos, callTime,
                                 runningTasks, dsp, ctxDone, fnIn, fnOut >>
        ELSE /\ dsp' = [ dsp EXCEPT ![t] = [ d EXCEPT !.loops = dsp[t].loops + 1 ] ]
             /\ runningTasks' = runningTasks \cup {t}
             /\ obs' = [ id |-> t, op |-> "newDispatcher", cbs |-> {},
                         calls |-> 0, rejected |-> 0, err |-> NoErr ]
             /\ UNCHANGED << tasks, subtasks, serverInfos, callTime, ctxDone,
                             fnIn, fnOut >>

Lowest(S) == CHOOSE t \in S : \A u \in S : t <= u

\* DispatchTaskLoop: the next pending task that has no driver gets one while
\* the cap allows.
DispatchTaskLoop ==
    /\ ~ctxDone
    /\ SlotFree
    /\ Unowned({ TaskStatePending }) # {}
    /\ StartDispatcher(Lowest(Unowned({ TaskStatePending })))
    /\ UNCHANGED << seen, analyze >>

\* DetectTaskLoop: a cancelling or pausing task that has no driver gets one.
DetectTaskLoop ==
    /\ ~ctxDone
    /\ SlotFree
    /\ Unowned({ TaskStateCancelling, TaskStatePausing }) # {}
    /\ StartDispatcher(Lowest(Unowned({ TaskStateCancelling, TaskStatePausing })))
    /\ UNCHANGED << seen, analyze >>

\* Manager.Stop cancels the context.
Stop ==
    /\ ~ctxDone
    /\ ctxDone' = TRUE
    /\ UNCHANGED << tasks, subtasks, serverInfos, callTime, runningTasks, dsp,
                    obs, fnIn, fnOut,
                    seen, analyze >>

(***************************************************************************)
(* The specification of the framework.                                     *)
(***************************************************************************)
Next ==
    \/ \E type \in TaskTypes : Submit(type)
    \/ \E t \in TaskIDs : CancelTask(t)
    \/ \E i \in 1..Len(subtasks) : WorkerUpdate(i)
    \/ \E s \in AllServers : ServerDown(s)
    \/ DispatchTaskLoop
    \/ DetectTaskLoop
    \/ \E t \in TaskIDs : Tick(t)
    \/ \E t \in TaskIDs : Count(t)
    \/ \E t \in TaskIDs : Update(t)

Spec == Init /\ [][Next]_vars

(***************************************************************************)
(* The transform check applied to every pair of task states.               *)
(***************************************************************************)
InitVerify ==
    /\ MainInit
    /\ fnIn \in TaskStates \X TaskStates
    /\ fnOut = [ done |-> FALSE, res |-> FALSE ]

Verify ==
    /\ ~fnOut.done
    /\ fnOut' = [ done |-> TRUE,
                 res |-> VerifyTaskStateTransform(fnIn[1], fnIn[2]) ]
    /\ UNCHANGED << tasks, subtasks, serverInfos, callTime, runningTasks, dsp,
                    ctxDone, obs, fnIn, seen, analyze >>

NextVerify == Verify

SpecVerify == InitVerify /\ [][NextVerify]_vars


(***************************************************************************)
(* The framework with Manager.Stop.                                        *)
(***************************************************************************)
NextStop ==
    \/ Next
    \/ \E t \in TaskIDs : CtxExit(t)
    \/ Stop

SpecStop == Init /\ [][NextStop]_vars

(***************************************************************************)
(* The framework with a change of ownership: the manager stops, its        *)
(* drivers exit, and a manager that starts afterwards, with an empty map   *)
(* of drivers, takes over the tasks it finds pending, running, cancelling  *)
(* or pausing.                                                             *)
(***************************************************************************)
\* Manager.Start after every driver of the stopped manager has exited.
Restart ==
    /\ ctxDone
    /\ runningTasks = {}
    /\ ctxDone' = FALSE
    /\ UNCHANGED << tasks, subtasks, serverInfos, callTime, runningTasks, dsp,
                    obs, fnIn, fnOut,
                    seen, analyze >>

\* DispatchTaskLoop for the tasks it finds running: a running task that has
\* no driver gets one while the cap allows.
DispatchRunningTask ==
    /\ ~ctxDone
    /\ SlotFree
    /\ Unowned({ TaskStateRunning }) # {}
    /\ StartDispatcher(Lowest(Unowned({ TaskStateRunning })))
    /\ UNCHANGED << seen, analyze >>

NextOwnerChange ==
    \/ NextStop
    \/ Restart
    \/ DispatchRunningTask

SpecOwnerChange == Init /\ [][NextOwnerChange]_vars

(***************************************************************************)
(* The manager under checkDispatch: tasks of type task_example are         *)
(* submitted, the executors work, nobody cancels and no server leaves.     *)
(***************************************************************************)
SubmitExample ==
    /\ Len(tasks) < MaxManagerTasks
    /\ tasks' = Append(tasks, NewTaskRow(TypeNumberExample, 0))
    /\ UNCHANGED << subtasks, serverInfos, callTime, runningTasks, dsp,
                    ctxDone, obs, fnIn, fnOut,
                    seen, analyze >>

\* The subtask updates checkDispatch makes in place of the executors: every
\* subtask may be marked succeed, the first subtask of a task failed, and a
\* revert subtask reverted.
TestNext(i) ==
    CASE subtasks[i].state = TaskStatePending ->
           IF i % subtaskCnt = 1
           THEN { TaskStateSucceed, TaskStateFailed }
           ELSE { TaskStateSucceed }
      [] subtasks[i].state = TaskStateRevertPending -> { TaskStateReverted }
      [] OTHER -> {}

TestUpdate(i) ==
    /\ i \in 1..Len(subtasks)
    /\ \E st \in TestNext(i) :
           subtasks' = [ subtasks EXCEPT ![i].state = st ]
    /\ UNCHANGED << tasks, serverInfos, callTime, runningTasks, dsp, ctxDone,
                    obs, fnIn, fnOut,
                    seen, analyze >>

NextManager ==
    \/ SubmitExample
    \/ \E i \in 1..Len(subtasks) : TestUpdate(i)
    \/ \E t \in TaskIDs : CancelTask(t)
    \/ DispatchTaskLoop
    \/ DetectTaskLoop
    \/ \E t \in TaskIDs : Tick(t)
    \/ \E t \in TaskIDs : Count(t)
    \/ \E t \in TaskIDs : Update(t)

SpecManager == Init /\ [][NextManager]_vars

(***************************************************************************)
(* checkDispatch without cancellation, under fair scheduling: the loops    *)
(* are driven by tickers, the test marks every subtask, and a storage      *)
(* write that is attempted again and again succeeds in the end.            *)
(***************************************************************************)
NextCheckDispatch ==
    \/ SubmitExample
    \/ \E i \in 1..Len(subtasks) : TestUpdate(i)
    \/ DispatchTaskLoop
    \/ \E t \in TaskIDs : Tick(t)
    \/ \E t \in TaskIDs : Count(t)
    \/ \E t \in TaskIDs : Update(t)

\* The storage loop of updateTask ends without error.
UpdateOk(t) == Update(t) /\ obs'.err = NoErr

\* The test marks some subtask.
TestStep == \E i \in 1..Len(subtasks) : TestUpdate(i)

SpecCheckDispatchFair ==
    /\ Init
    /\ [][NextCheckDispatch]_vars
    /\ WF_vars(DispatchTaskLoop)
    /\ WF_vars(TestStep)
    /\ \A t \in TaskIDs :
           /\ WF_vars(Tick(t))
           /\ WF_vars(Count(t))
           /\ WF_vars(Update(t))
           /\ SF_vars(UpdateOk(t))

(***************************************************************************)
(* One task of type task_example under fair scheduling, with a caller that *)
(* may cancel it at any moment: the part of checkDispatch that cancels the *)
(* tasks, marks subtasks failed and marks the revert subtasks reverted.    *)
(***************************************************************************)
NextCancel ==
    \/ Submit(TypeNumberExample)
    \/ TestStep
    \/ \E t \in TaskIDs : CancelTask(t)
    \/ DispatchTaskLoop
    \/ DetectTaskLoop
    \/ \E t \in TaskIDs : Tick(t)
    \/ \E t \in TaskIDs : Count(t)
    \/ \E t \in TaskIDs : Update(t)

SpecCancelFair ==
    /\ Init
    /\ [][NextCancel]_vars
    /\ WF_vars(DispatchTaskLoop)
    /\ WF_vars(DetectTaskLoop)
    /\ WF_vars(TestStep)
    /\ \A t \in TaskIDs :
           /\ WF_vars(Tick(t))
           /\ WF_vars(Count(t))
           /\ WF_vars(Update(t))
           /\ SF_vars(UpdateOk(t))

(***************************************************************************)
(* One task of type task_example with a caller that may cancel it and a    *)
(* manager that may stop.  The select of scheduleTask chooses at random    *)
(* among its ready cases, so a ctx.Done case that is ready again and again *)
(* is taken in the end; a handler that has begun runs to its return.       *)
(***************************************************************************)
NextStopCancel ==
    \/ NextCancel
    \/ Stop
    \/ \E t \in TaskIDs : CtxExit(t)

SpecStopFair ==
    /\ Init
    /\ [][NextStopCancel]_vars
    /\ \A t \in TaskIDs :
           /\ SF_vars(CtxExit(t))
           /\ WF_vars(Count(t))
           /\ WF_vars(Update(t))

(***************************************************************************)
(* Node replacement: one task of type task_example whose subtasks stay     *)
(* pending, so that every tick of its driver runs replaceDeadNodesIfAny,   *)
(* in a cluster whose servers leave and come back.                         *)
(***************************************************************************)
\* A server comes back to the membership source.
ServerUp(s) ==
    /\ s \in AllServers \ serverInfos
    /\ serverInfos' = serverInfos \cup {s}
    /\ UNCHANGED << tasks, subtasks, callTime, runningTasks, dsp, ctxDone,
                    obs, fnIn, fnOut, seen, analyze >>

NextReplace ==
    \/ Submit(TypeNumberExample)
    \/ DispatchTaskLoop
    \/ \E s \in AllServers : ServerDown(s)
    \/ \E s \in AllServers : ServerUp(s)
    \/ \E t \in TaskIDs : Tick(t)
    \/ \E t \in TaskIDs : Count(t)
    \/ \E t \in TaskIDs : Update(t)

SpecReplace == Init /\ [][NextReplace]_vars

(***************************************************************************)
(* The two manager loops step by step: a loop reads from the storage the   *)
(* tasks in the states it looks for, and then goes through the list it has *)
(* read; for a task of the list that has no driver, and while the cap      *)
(* allows, it constructs a driver and registers it in the map under the    *)
(* map's mutex.  Between the read and the visit of a task the other loop,  *)
(* a canceller and the drivers take steps.                                 *)
(***************************************************************************)
\* A test of the map that finds no task owned.
isRunningTaskMutant(t) == FALSE

\* isRunningTask: the task has an entry in the map of drivers.
isRunningTask(t) == t \in runningTasks

\* The tasks in one of the given states (GetGlobalTasksInStates).
TasksInStates(states) == { t \in 1..Len(tasks) : tasks[t].state \in states }

\* DispatchTaskLoop reads the pending tasks.
QueryDispatch ==
    /\ ~ctxDone
    /\ seen.dispatch = {}
    /\ TasksInStates({ TaskStatePending }) # {}
    /\ UNCHANGED analyze
    /\ seen' = [ seen EXCEPT !.dispatch = TasksInStates({ TaskStatePending }) ]
    /\ UNCHANGED << tasks, subtasks, serverInfos, callTime, runningTasks, dsp,
                    ctxDone, obs, fnIn, fnOut >>

\* DetectTaskLoop reads the cancelling and pausing tasks.
QueryDetect ==
    /\ ~ctxDone
    /\ seen.detect = {}
    /\ TasksInStates({ TaskStateCancelling, TaskStatePausing }) # {}
    /\ UNCHANGED analyze
    /\ seen' = [ seen EXCEPT !.detect =
                    TasksInStates({ TaskStateCancelling, TaskStatePausing }) ]
    /\ UNCHANGED << tasks, subtasks, serverInfos, callTime, runningTasks, dsp,
                    ctxDone, obs, fnIn, fnOut >>

\* The cap a manager starts with; checkDispatch lowers it for its runs with
\* a single task only.
InitialDispatchConcurrency == 4

\* A loop visits the next task of its list: a task that has a driver, or
\* that the cap leaves no slot for, is passed over; any other task gets a
\* driver.
Visit(t) ==
    IF isRunningTask(t) \/ GetRunningTaskCnt >= InitialDispatchConcurrency
    THEN UNCHANGED << tasks, subtasks, serverInfos, callTime, runningTasks,
                      dsp, ctxDone, obs, fnIn, fnOut >>
    ELSE StartDispatcher(t)

VisitDispatch ==
    /\ ~ctxDone
    /\ seen.dispatch # {}
    /\ UNCHANGED analyze
    /\ seen' = [ seen EXCEPT !.dispatch = @ \ { Lowest(seen.dispatch) } ]
    /\ Visit(Lowest(seen.dispatch))

VisitDetect ==
    /\ ~ctxDone
    /\ seen.detect # {}
    /\ UNCHANGED analyze
    /\ seen' = [ seen EXCEPT !.detect = @ \ { Lowest(seen.detect) } ]
    /\ Visit(Lowest(seen.detect))

NextLoops ==
    \/ Submit(TypeNumberExample)
    \/ \E t \in TaskIDs : CancelTask(t)
    \/ TestStep
    \/ QueryDispatch
    \/ QueryDetect
    \/ VisitDispatch
    \/ VisitDetect
    \/ \E t \in TaskIDs : Tick(t)
    \/ \E t \in TaskIDs : Count(t)
    \/ \E t \in TaskIDs : Update(t)

SpecLoops == Init /\ [][NextLoops]_vars

(***************************************************************************)
(* dispatchSubTask applied to a task, a list of metas and a cluster that   *)
(* are drawn from bounded sets.                                            *)
(***************************************************************************)
ConcurrencyInputs == { 0, 8, 256, 300 }

DispatchInputTask(type, state, concurrency) ==
    [ type |-> type, state |-> state,
      step |-> IF state = TaskStatePending THEN StepInit ELSE StepOne,
      concurrency |-> concurrency, error |-> NoErr ]

InitDispatch ==
    /\ \E type \in { TypeNumberExample, TypeTest },
          state \in { TaskStatePending, TaskStateRunning },
          concurrency \in ConcurrencyInputs :
           tasks = << DispatchInputTask(type, state, concurrency) >>
    /\ subtasks = << >>
    /\ serverInfos \in SUBSET AllServers
    /\ callTime = 0
    /\ runningTasks = {1}
    /\ dsp = [ t \in TaskIDs |->
                 IF t = 1
                 THEN [ NewDriver(GetGlobalTaskByID(1)) EXCEPT !.pc = "dispatch" ]
                 ELSE NoDriver ]
    /\ ctxDone = FALSE
    /\ obs = NoObs
    /\ seen = NoSeen
    /\ analyze = NoAnalyze
    /\ fnIn \in { [ i \in 1..n |-> "meta" ] : n \in 0..MaxMetas }
    /\ fnOut = [ done |-> FALSE, res |-> FALSE ]

\* The call dispatchSubTask(d.task, metas).
DispatchCall ==
    /\ dsp[1].pc = "dispatch"
    /\ \E o \in dispatchSubTask(dsp[1], fnIn, callTime, {}) :
           Apply(1, o, "dispatchSubTask")

NextDispatch ==
    \/ DispatchCall
    \/ Update(1)

SpecDispatch == InitDispatch /\ [][NextDispatch]_vars


(***************************************************************************)
(* Properties.                                                             *)
(***************************************************************************)
\* The table of legal transitions as the design states it.
LegalPairs ==
    ({ TaskStatePending } \X
        { TaskStateRunning, TaskStateCancelling, TaskStatePausing,
          TaskStateSucceed, TaskStateFailed })
    \cup ({ TaskStateRunning } \X
        { TaskStateSucceed, TaskStateReverting, TaskStateFailed,
          TaskStateCancelling, TaskStatePausing })
    \cup { << TaskStateReverting, TaskStateReverted >>,
           << TaskStateCancelling, TaskStateReverting >>,
           << TaskStatePausing, TaskStatePaused >>,
           << TaskStatePaused, TaskStateResuming >>,
           << TaskStateResuming, TaskStateRunning >> }

Legal(from, to) == from = to \/ << from, to >> \in LegalPairs

InvalidTransform == "invalid task state transform"

\* C1: every change of a task's persisted state, by a driver's updateTask
\* or by an external cancel, is a legal pair (from, to); and a call of
\* updateTask with a pair that is not legal returns its error without a
\* storage call: no row changes and no write is attempted.
C1_PersistedTransitionsLegal ==
    [][ /\ \A t \in 1..Len(tasks) :
              tasks'[t].state # tasks[t].state
                  => Legal(tasks[t].state, tasks'[t].state)
        /\ (obs' # obs /\ obs'.err = InvalidTransform)
              => /\ tasks' = tasks
                 /\ subtasks' = subtasks
                 /\ obs'.calls = 0 ]_vars

\* A task was cancelled while pending, and the driver construction for its
\* unregistered type tried cancelling -> failed and was refused.
C1_Witness ==
    /\ Len(tasks) >= 1
    /\ tasks[1].state = TaskStateCancelling
    /\ obs.op = "newDispatcher"
    /\ obs.err = InvalidTransform
    /\ obs.calls = 0

\* C2: VerifyTaskStateTransform(from, to) is true exactly when from = to or
\* the pair is in the table of legal transitions, for every pair of the 13
\* task states.
C2_TransformMatchesTable ==
    fnOut.done =>
        (fnOut.res <=> (fnIn[1] = fnIn[2] \/ << fnIn[1], fnIn[2] >> \in LegalPairs))

\* VerifyTaskStateTransform has accepted cancelling -> reverting.
C2_Witness ==
    /\ fnOut.done
    /\ fnIn = << TaskStateCancelling, TaskStateReverting >>
    /\ fnOut.res


\* C3 as stated: a task's persisted state changes away from running only
\* when none of its subtasks is pending or running, or when subtask errors
\* exist and the new state is reverting.
C3_LeavesRunningOnlyWhenDrainedOrError ==
    [][ \A t \in 1..Len(tasks) :
            (tasks[t].state = TaskStateRunning
             /\ tasks'[t].state # TaskStateRunning)
                => \/ GetSubtaskInStatesCnt(t, { TaskStatePending,
                                                 TaskStateRunning }) = 0
                   \/ /\ CollectSubTaskError(t) # {}
                      /\ tasks'[t].state = TaskStateReverting ]_vars

\* C3 amended: apart from an external cancel, which moves a running task
\* to cancelling at any time, a task's persisted state changes away from
\* running only when none of its subtasks is pending or running, or when
\* subtask errors exist and the new state is reverting.
C3_DriverLeavesRunningOnlyWhenDrainedOrError ==
    [][ \A t \in 1..Len(tasks) :
            (tasks[t].state = TaskStateRunning
             /\ tasks'[t].state \notin { TaskStateRunning, TaskStateCancelling })
                => \/ GetSubtaskInStatesCnt(t, { TaskStatePending,
                                                 TaskStateRunning }) = 0
                   \/ /\ CollectSubTaskError(t) # {}
                      /\ tasks'[t].state = TaskStateReverting ]_vars

\* The driver moved a task from running to reverting on a subtask error
\* while another subtask of it was still pending or running.
C3_Witness ==
    /\ Len(tasks) >= 1
    /\ tasks[1].state = TaskStateReverting
    /\ obs.op = "updateTask"
    /\ obs.err = NoErr
    /\ CollectSubTaskError(1) # {}
    /\ GetSubtaskInStatesCnt(1, { TaskStatePending, TaskStateRunning }) > 0

\* C4: a task whose persisted state is reverting changes state only to
\* reverted, and only when none of its subtasks is revert_pending or
\* reverting; no step of a driver, an executor or a canceller moves it
\* anywhere else.
C4_LeavesRevertingOnlyToReverted ==
    [][ \A t \in 1..Len(tasks) :
            (tasks[t].state = TaskStateReverting
             /\ tasks'[t].state # TaskStateReverting)
                => /\ tasks'[t].state = TaskStateReverted
                   /\ GetSubtaskInStatesCnt(t, { TaskStateRevertPending,
                                                 TaskStateReverting }) = 0 ]_vars

\* A task has become reverted after its revert subtasks were reverted.
C4_Witness ==
    /\ Len(tasks) >= 1
    /\ tasks[1].state = TaskStateReverted
    /\ \E i \in 1..Len(subtasks) :
           subtasks[i].task = 1 /\ subtasks[i].state = TaskStateReverted

\* C5: the persisted step of a task never decreases, whatever write
\* changes the row.
C5_StepNonDecreasing ==
    [][ \A t \in 1..Len(tasks) : tasks'[t].step >= tasks[t].step ]_vars

\* A task has been dispatched twice, from StepInit to StepOne to StepTwo.
C5_Witness ==
    /\ Len(tasks) >= 1
    /\ tasks[1].step = StepTwo
    /\ tasks[1].state = TaskStateSucceed

\* C6: the persisted step changes only in a write pending -> running, or
\* in a write running -> running made when no subtask of the task is
\* pending or running and no subtask error exists; a write to any other
\* state leaves the step alone.
C6_StepChangesOnlyOnDrainedDispatch ==
    [][ \A t \in 1..Len(tasks) :
            tasks'[t].step # tasks[t].step
                => \/ /\ tasks[t].state = TaskStatePending
                      /\ tasks'[t].state = TaskStateRunning
                   \/ /\ tasks[t].state = TaskStateRunning
                      /\ tasks'[t].state = TaskStateRunning
                      /\ GetSubtaskInStatesCnt(t, { TaskStatePending,
                                                    TaskStateRunning }) = 0
                      /\ CollectSubTaskError(t) = {} ]_vars

\* Number of the subtask rows with the given exec id.
AssignedTo(execID) ==
    Cardinality({ i \in 1..Len(subtasks) : subtasks[i].exec = execID })

EligibleExecIDs == { GenerateExecID(n.IP, n.Port) : n \in serverInfos }

\* C7: when a dispatch of N metas over K >= 1 eligible instances has been
\* persisted, subtask i is on the exec id of eligible instance i mod K, every
\* assigned node is an eligible instance, and two eligible instances differ
\* by at most one subtask.
C7_RoundRobin ==
    Len(subtasks) > 0 =>
        LET nodes == dsp[1].taskNodes
            K == Len(nodes)
        IN  /\ K >= 1
            /\ Range(nodes) = EligibleExecIDs
            /\ Len(subtasks) = Len(fnIn)
            /\ \A i \in 1..Len(subtasks) :
                   subtasks[i].exec = nodes[((i - 1) % K) + 1]
            /\ \A i \in 1..Len(subtasks) : subtasks[i].exec \in EligibleExecIDs
            /\ \A a, b \in EligibleExecIDs :
                   AssignedTo(a) - AssignedTo(b) \in { -1, 0, 1 }

\* Three metas were dispatched over two eligible instances, two and one.
C7_Witness ==
    /\ Len(subtasks) = 3
    /\ Cardinality(serverInfos) = 2
    /\ AssignedTo(GenerateExecID(Server1.IP, Server1.Port)) = 2
    /\ AssignedTo(GenerateExecID(Server2.IP, Server2.Port)) = 1

WaitingAtFullCap(t) ==
    /\ t <= Len(tasks)
    /\ tasks[t].state = TaskStatePending
    /\ t \notin runningTasks
    /\ GetRunningTaskCnt = DefaultDispatchConcurrency

\* C9: a pending task submitted while the cap is full stays pending and
\* without a driver as long as the cap is full, and once an owned task
\* finishes and frees its slot the task is eventually given a driver and
\* advanced to running.
C9_ExtraTaskWaitsThenRuns ==
    /\ [][ \A t \in TaskIDs :
               WaitingAtFullCap(t)
                   => /\ tasks'[t].state = TaskStatePending
                      /\ t \notin runningTasks' ]_vars
    /\ \A t \in TaskIDs :
           WaitingAtFullCap(t)
               ~> (t \in runningTasks /\ tasks[t].state = TaskStateRunning)

\* The second task runs under its own driver after the first one finished.
C9_Witness ==
    /\ Len(tasks) >= 2
    /\ tasks[1].state \in { TaskStateSucceed, TaskStateReverted }
    /\ 1 \notin runningTasks
    /\ 2 \in runningTasks
    /\ tasks[2].state = TaskStateRunning

\* C10: a tick whose refreshed task state is succeed, reverted or failed
\* exits the schedule loop, calls no strategy callback and writes nothing
\* to the storage; and no step changes a task row in one of these states.
C10_TerminalTickIsNoOp ==
    [][ \A t \in 1..Len(tasks) :
            tasks[t].state \in { TaskStateSucceed, TaskStateReverted,
                                 TaskStateFailed }
                => /\ tasks'[t] = tasks[t]
                   /\ Tick(t)
                          => /\ dsp'[t] = NoDriver
                             /\ t \notin runningTasks'
                             /\ obs'.op = "exit"
                             /\ obs'.cbs = {}
                             /\ obs'.calls = 0
                             /\ tasks' = tasks
                             /\ subtasks' = subtasks
                             /\ callTime' = callTime ]_vars

\* The loop of a driver has exited on a failed task.
C10_Witness ==
    /\ obs.op = "exit"
    /\ Len(tasks) >= 1
    /\ tasks[1].state = TaskStateFailed
    /\ dsp[1] = NoDriver

\* The error of the storage for a write whose expected previous state is
\* not the persisted one.
PrevStateMismatch == "invalid task state transition"

\* C11: a call of UpdateGlobalTaskAndAddSubTasks whose expected previous
\* state differs from the persisted state is refused as not retryable, it
\* changes neither the task row nor any subtask row, and the loop of
\* updateTask ends with that attempt.
C11_PrevStateMismatchRejected ==
    [][ \A t \in 1..Len(tasks) :
            (Update(t) /\ dsp[t].upd.prev # tasks[t].state)
                => /\ LET r == UpdateGlobalTaskAndAddSubTasks(dsp[t].task,
                                   dsp[t].upd.subs, dsp[t].upd.prev, FALSE)
                      IN  /\ ~r.retryable
                          /\ r.err = PrevStateMismatch
                          /\ r.tasks = tasks
                          /\ r.subtasks = subtasks
                   /\ tasks' = tasks
                   /\ subtasks' = subtasks
                   /\ obs'.err # NoErr
                   /\ obs'.rejected <= 1
                   /\ obs'.rejected = 1 => obs'.err = PrevStateMismatch ]_vars

\* A write of a dispatch with subtasks met a cancelled task: after one
\* transient failure the second attempt was refused and nothing was written.
C11_Witness ==
    /\ obs.op = "updateTask"
    /\ obs.calls = 2
    /\ obs.rejected = 1
    /\ obs.err = PrevStateMismatch
    /\ Len(tasks) >= 1
    /\ tasks[1].state = TaskStateCancelling
    /\ subtasks = << >>

\* The states of the cancel path.
CancelPathStates ==
    { TaskStateCancelling, TaskStateReverting, TaskStateReverted }

\* C12: when a cancel has made a task cancelling after the driver refreshed
\* it as pending or running, the driver's write on that tick changes neither
\* the row nor the subtasks; a tick that finds the task cancelling runs
\* onCancelling; and a cancelling task only goes on to reverting and
\* reverted, never to running, succeed or failed.
C12_ConcurrentCancelWins ==
    [][ \A t \in 1..Len(tasks) :
            /\ (Update(t)
                /\ tasks[t].state = TaskStateCancelling
                /\ dsp[t].upd.prev \in { TaskStatePending, TaskStateRunning })
                   => /\ tasks' = tasks
                      /\ subtasks' = subtasks
                      /\ obs'.err # NoErr
            /\ (Tick(t) /\ tasks[t].state = TaskStateCancelling)
                   => /\ obs'.op = "onCancelling"
                      /\ "OnErrStage" \in obs'.cbs
                      /\ dsp'[t].task.state \in { TaskStateCancelling,
                                                  TaskStateReverting }
            /\ tasks[t].state \in CancelPathStates
                   => tasks'[t].state \in CancelPathStates ]_vars

\* The driver's single attempt to write pending -> running with subtasks
\* was refused because the task had been cancelled after the refresh.
C12_Witness ==
    /\ Len(tasks) >= 1
    /\ tasks[1].state = TaskStateCancelling
    /\ obs.op = "updateTask"
    /\ obs.calls = 1
    /\ obs.err = PrevStateMismatch
    /\ dsp[1].task.state = TaskStateRunning
    /\ dsp[1].taskNodes # << >>
    /\ subtasks = << >>

\* The subtask rows of task t.
SubtasksOf(t) == { i \in 1..Len(subtasks) : subtasks[i].task = t }

\* Task t has finished with success: the row is succeed, every subtask is
\* succeed and the driver has left its loop.
SucceededAndExited(t) ==
    /\ t <= Len(tasks)
    /\ tasks[t].state = TaskStateSucceed
    /\ SubtasksOf(t) # {}
    /\ \A i \in SubtasksOf(t) : subtasks[i].state = TaskStateSucceed
    /\ dsp[t] = NoDriver
    /\ t \notin runningTasks

\* C13: under fair ticks, a submitted task of the strategy that returns
\* metas for the first stage and none afterwards, with live nodes and with
\* every subtask marked succeed, eventually is succeed with its driver gone;
\* the only ways out are a subtask error and a cancel.
C13_AllSubtasksSucceedLeadsToSucceed ==
    \A t \in TaskIDs :
        (t <= Len(tasks) /\ tasks[t].state = TaskStatePending)
            ~> \/ SucceededAndExited(t)
               \/ t <= Len(tasks) /\ CollectSubTaskError(t) # {}
               \/ t <= Len(tasks) /\ tasks[t].state \in CancelPathStates

\* The task is succeed with its three subtasks succeed and the loop left.
C13_Witness ==
    /\ SucceededAndExited(1)
    /\ Cardinality(SubtasksOf(1)) = subtaskCnt
    /\ tasks[1].step = StepOne
    /\ obs.op = "exit"

\* A subtask of task t has failed and the driver is where it will collect
\* the error or has collected it: between two ticks, or writing reverting
\* or reverted.
ErrorPath(t) ==
    /\ t <= Len(tasks)
    /\ CollectSubTaskError(t) # {}
    /\ tasks[t].state \in { TaskStateRunning } \cup CancelPathStates
    /\ \/ dsp[t].pc \in { "idle", "none" }
       \/ /\ dsp[t].pc = "update"
          /\ dsp[t].task.state \in { TaskStateReverting, TaskStateReverted }

\* C14: under fair ticks, once a failed subtask of a running task is
\* collected (OnErrStage succeeding, the revert subtasks being marked
\* reverted) the task stays on the error path, so it never becomes succeed;
\* it becomes reverted only from reverting; and it eventually is reverted.
C14_FailedSubtaskLeadsToReverted ==
    /\ [][ \A t \in TaskIDs :
               /\ ErrorPath(t) => ErrorPath(t)'
               /\ (ErrorPath(t) /\ tasks'[t].state # tasks[t].state)
                      => \/ tasks[t].state = TaskStateReverting
                            /\ tasks'[t].state = TaskStateReverted
                         \/ tasks[t].state # TaskStateReverting
                            /\ tasks'[t].state \in { TaskStateReverting,
                                                     TaskStateCancelling } ]_vars
    /\ \A t \in TaskIDs :
           (ErrorPath(t) /\ tasks[t].state = TaskStateRunning)
               ~> (t <= Len(tasks) /\ tasks[t].state = TaskStateReverted)

\* The task is reverted after a subtask failed and the revert subtasks
\* were reverted.
C14_Witness ==
    /\ Len(tasks) >= 1
    /\ tasks[1].state = TaskStateReverted
    /\ \E i \in SubtasksOf(1) : subtasks[i].state = TaskStateFailed
    /\ \E i \in SubtasksOf(1) : subtasks[i].state = TaskStateReverted
    /\ dsp[1] = NoDriver

\* Task t is cancelling while subtasks of it are pending or running.
CancelledWhileRunning(t) ==
    /\ t <= Len(tasks)
    /\ tasks[t].state = TaskStateCancelling
    /\ GetSubtaskInStatesCnt(t, { TaskStatePending, TaskStateRunning }) > 0

\* C15: a running task whose subtasks have not completed is moved by a
\* cancel to cancelling, from there only to reverting, from there only to
\* reverted, where it stays; and under fair ticks, the revert subtasks being
\* marked reverted, it eventually is reverted.
C15_CancelRunningLeadsToReverted ==
    /\ [][ \A t \in 1..Len(tasks) :
               tasks'[t].state # tasks[t].state
                   => /\ tasks'[t].state = TaskStateCancelling
                          => tasks[t].state \in { TaskStatePending,
                                                  TaskStateRunning }
                      /\ tasks[t].state = TaskStateCancelling
                          => tasks'[t].state = TaskStateReverting
                      /\ tasks[t].state = TaskStateReverting
                          => tasks'[t].state = TaskStateReverted
                      /\ tasks[t].state # TaskStateReverted ]_vars
    /\ \A t \in TaskIDs :
           CancelledWhileRunning(t)
               ~> (t <= Len(tasks) /\ tasks[t].state = TaskStateReverted)

\* The task is reverted although no subtask failed and subtasks of it are
\* still pending: it was cancelled while running.
C15_Witness ==
    /\ Len(tasks) >= 1
    /\ tasks[1].state = TaskStateReverted
    /\ CollectSubTaskError(1) = {}
    /\ GetSubtaskInStatesCnt(1, { TaskStatePending, TaskStateRunning }) > 0
    /\ \E i \in SubtasksOf(1) : subtasks[i].state = TaskStateReverted

\* The step of t's driver is a handler that got an error from OnNextStage
\* and asked IsRetryableErr about it.
PlanErrStep(t) ==
    /\ Tick(t) \/ Count(t)
    /\ "OnNextStage" \in obs'.cbs
    /\ "IsRetryableErr" \in obs'.cbs

\* C16: when OnNextStage returns an error that IsRetryableErr takes as
\* retryable, the handler returns that error and prepares no storage write:
\* task row, step and subtasks stay; the next tick of the still pending task
\* calls OnNextStage again; and the write pending -> running that follows a
\* successful call inserts exactly the subtasks of the returned metas.
C16_RetryablePlanErrLeavesStateAlone ==
    [][ \A t \in 1..Len(tasks) :
            /\ (PlanErrStep(t)
                /\ IsRetryableErr(dsp[t].impl,
                       OnNextStage(dsp[t].impl, GetGlobalTaskByID(t),
                                   callTime).err))
                   => /\ obs'.err = OnNextStage(dsp[t].impl,
                                        GetGlobalTaskByID(t), callTime).err
                      /\ obs'.err # NoErr
                      /\ dsp'[t].pc = "idle"
                      /\ tasks' = tasks
                      /\ subtasks' = subtasks
            /\ (Tick(t) /\ tasks[t].state = TaskStatePending)
                   => "OnNextStage" \in obs'.cbs
            /\ (Update(t)
                /\ tasks[t].state = TaskStatePending
                /\ tasks'[t].state = TaskStateRunning)
                   => LET metas == OnNextStage(dsp[t].impl,
                                       GetGlobalTaskByID(t), callTime).metas
                          K == Len(dsp[t].taskNodes)
                      IN  /\ Len(metas) > 0
                          /\ K > 0
                          /\ subtasks' = subtasks \o
                               [ i \in 1..Len(metas) |->
                                   [ task |-> t,
                                     step |-> tasks'[t].step,
                                     exec |-> dsp[t].taskNodes[((i - 1) % K) + 1],
                                     state |-> TaskStatePending,
                                     meta |-> metas[i] ] ] ]_vars

\* The plan_err task is running at StepOne with its three subtasks after the
\* first call of OnNextStage had failed.
C16_Witness ==
    /\ Len(tasks) >= 1
    /\ tasks[1].type = TypePlanErr
    /\ tasks[1].state = TaskStateRunning
    /\ tasks[1].step = StepOne
    /\ callTime = 1
    /\ Len(subtasks) = 3
    /\ \A i \in 1..3 : subtasks[i].state = TaskStatePending
    /\ << subtasks[1].meta, subtasks[2].meta, subtasks[3].meta >>
           = << "task1", "task2", "task3" >>

\* C17: when OnNextStage returns an error that IsRetryableErr takes as not
\* retryable, the handler puts the error into task.error and goes on to
\* write failed with no subtasks; the write takes the pending row to failed
\* with that error and inserts nothing.
C17_NonRetryablePlanErrFailsTask ==
    [][ \A t \in 1..Len(tasks) :
            /\ (PlanErrStep(t)
                /\ ~IsRetryableErr(dsp[t].impl,
                        OnNextStage(dsp[t].impl, GetGlobalTaskByID(t),
                                    callTime).err))
                   => /\ dsp'[t].pc = "update"
                      /\ dsp'[t].task.state = TaskStateFailed
                      /\ dsp'[t].task.error =
                             OnNextStage(dsp[t].impl, GetGlobalTaskByID(t),
                                         callTime).err
                      /\ dsp'[t].task.error # NoErr
                      /\ dsp'[t].upd.subs = << >>
                      /\ dsp'[t].upd.prev = TaskStatePending
                      /\ tasks' = tasks
                      /\ subtasks' = subtasks
            /\ (Update(t)
                /\ dsp[t].task.state = TaskStateFailed
                /\ obs'.err = NoErr)
                   => /\ tasks[t].state = TaskStatePending
                      /\ tasks'[t].state = TaskStateFailed
                      /\ tasks'[t].error = dsp[t].task.error
                      /\ tasks'[t].error # NoErr
                      /\ subtasks' = subtasks ]_vars

\* The task of the strategy whose plan error is not retryable is failed
\* with that error and has no subtask.
C17_Witness ==
    /\ Len(tasks) >= 1
    /\ tasks[1].type = TypePlanNotRetryable
    /\ tasks[1].state = TaskStateFailed
    /\ tasks[1].error = "not retryable err"
    /\ subtasks = << >>
    /\ obs.op = "updateTask"

\* The step is newDispatcher for the pending task t whose type has no
\* registered dispatcher.
NewDispatcherUnsupported(t) ==
    /\ obs' # obs
    /\ obs'.op = "newDispatcher"
    /\ obs'.id = t
    /\ tasks[t].state = TaskStatePending
    /\ GetTaskDispatcher(tasks[t].type) = NilImpl

\* C18: newDispatcher for a task whose type has no registered dispatcher
\* records an error in task.error, writes pending -> failed with a single
\* storage attempt, and starts no schedule loop for the task.
C18_UnsupportedTypeFailsInOneAttempt ==
    [][ \A t \in 1..Len(tasks) :
            NewDispatcherUnsupported(t)
                => /\ obs'.calls = 1
                   /\ dsp'[t] = NoDriver
                   /\ t \notin runningTasks'
                   /\ subtasks' = subtasks
                   /\ obs'.err = NoErr
                          => /\ tasks'[t].state = TaskStateFailed
                             /\ tasks'[t].error # NoErr ]_vars

\* What newDispatcher does for such a task when the attempts are not
\* counted.
C18_UnsupportedTypeFails ==
    [][ \A t \in 1..Len(tasks) :
            NewDispatcherUnsupported(t)
                => /\ obs'.calls >= 1
                   /\ dsp'[t] = NoDriver
                   /\ t \notin runningTasks'
                   /\ subtasks' = subtasks
                   /\ obs'.err = NoErr
                          => /\ tasks'[t].state = TaskStateFailed
                             /\ tasks'[t].error # NoErr ]_vars

\* C19: the write that takes a task from pending to running with its first
\* subtasks makes exactly one storage attempt, a retryable failure of it is
\* not retried; a write from a state other than pending may make up to
\* retrySQLTimes attempts.
C19_FirstDispatchIsSingleShot ==
    [][ \A t \in 1..Len(tasks) :
            Update(t)
                => /\ (dsp[t].upd.prev = TaskStatePending
                       /\ dsp[t].task.state = TaskStateRunning)
                          => obs'.calls = 1
                   /\ dsp[t].upd.prev # TaskStatePending
                          => /\ dsp[t].upd.retry = retrySQLTimes
                             /\ obs'.calls <= retrySQLTimes ]_vars

\* The other writes keep to their retry counts: pending -> succeed is a
\* single attempt, every write from another state makes up to retrySQLTimes
\* attempts.
C19_OtherWritesKeepRetryCount ==
    [][ \A t \in 1..Len(tasks) :
            Update(t)
                => /\ (dsp[t].upd.prev = TaskStatePending
                       /\ dsp[t].task.state = TaskStateSucceed)
                          => obs'.calls = nonRetrySQLTime
                   /\ dsp[t].upd.prev # TaskStatePending
                          => /\ dsp[t].upd.retry = retrySQLTimes
                             /\ obs'.calls <= retrySQLTimes ]_vars

\* Every result GetEligibleInstances may give the driver of task 1 is an
\* empty list without error.
NoEligibleInstance ==
    \A r \in GetEligibleInstances(dsp[1].impl, serverInfos) :
        r.err = NoErr /\ Len(r.nodes) = 0

NoAvailableNode == "no available TiDB node to dispatch subtasks"

\* C20: dispatchSubTask with a non-empty list of metas and an empty list of
\* eligible instances returns an error and goes back to the loop without a
\* storage write: task row, step and subtasks are unchanged, and so is the
\* state the driver holds in memory.
C20_NoEligibleInstanceNoWrite ==
    [][ (DispatchCall /\ Len(fnIn) > 0 /\ NoEligibleInstance)
            => /\ obs'.err = NoAvailableNode
               /\ obs'.calls = 0
               /\ dsp'[1].pc = "idle"
               /\ dsp'[1].upd = NoUpd
               /\ dsp'[1].task.state = dsp[1].task.state
               /\ dsp'[1].task.step = dsp[1].task.step
               /\ dsp'[1].taskNodes = dsp[1].taskNodes
               /\ tasks' = tasks
               /\ subtasks' = subtasks ]_vars

\* The dispatch of three metas for a pending task found no instance.
C20_Witness ==
    /\ obs.op = "dispatchSubTask"
    /\ obs.err = NoAvailableNode
    /\ Len(fnIn) = 3
    /\ tasks[1].state = TaskStatePending
    /\ tasks[1].step = StepInit
    /\ subtasks = << >>
    /\ dsp[1].pc = "idle"

\* The concurrency a dispatch persists for a task submitted with c.
NormalizedConcurrency(c) ==
    CASE c = 0 -> DefaultSubtaskConcurrency
      [] c > MaxSubtaskConcurrency -> MaxSubtaskConcurrency
      [] OTHER -> c

\* C21: when dispatchSubTask has persisted its write, to running with the
\* subtasks or to succeed for an empty list of metas, the task row's
\* concurrency is in 1..MaxSubtaskConcurrency: DefaultSubtaskConcurrency for
\* an input of 0, MaxSubtaskConcurrency for an input above it, the input
\* itself otherwise.
C21_ConcurrencyNormalized ==
    [][ (Update(1) /\ obs'.err = NoErr)
            => /\ tasks'[1].concurrency \in 1..MaxSubtaskConcurrency
               /\ tasks'[1].concurrency = NormalizedConcurrency(tasks[1].concurrency)
               /\ tasks'[1].state \in { TaskStateRunning, TaskStateSucceed } ]_vars

\* A task submitted with concurrency 0 was dispatched and persisted as
\* running with the default concurrency.
C21_Witness ==
    /\ obs.op = "updateTask"
    /\ obs.err = NoErr
    /\ tasks[1].state = TaskStateRunning
    /\ tasks[1].concurrency = DefaultSubtaskConcurrency
    /\ Len(subtasks) > 0

\* The task is on the path that calls OnErrStage: cancelling, or running
\* with a subtask that ended in error.
ErrStagePath(t) ==
    \/ tasks[t].state = TaskStateCancelling
    \/ tasks[t].state = TaskStateRunning /\ CollectSubTaskError(t) # {}

\* C22: a tick that finds the task cancelling, or running with subtask
\* errors, calls OnErrStage; when OnErrStage returns an error the handler
\* returns it with no storage call and no write prepared, rows and subtasks
\* stay, the task stays on that path so that the driver's next tick calls
\* OnErrStage again; and no step moves a task on that path to failed.
C22_ErrStageErrorIsRetried ==
    [][ \A t \in 1..Len(tasks) :
            /\ (Tick(t) /\ ErrStagePath(t)) => "OnErrStage" \in obs'.cbs
            /\ (Tick(t) /\ ErrStagePath(t)
                /\ OnErrStage(dsp[t].impl, callTime).err # NoErr)
                  => /\ obs'.err = OnErrStage(dsp[t].impl, callTime).err
                     /\ obs'.calls = 0
                     /\ dsp'[t].pc = "idle"
                     /\ dsp'[t].upd = NoUpd
                     /\ tasks' = tasks
                     /\ subtasks' = subtasks
                     /\ ErrStagePath(t)'
            /\ (obs.id = t /\ obs.cbs = {"OnErrStage"} /\ obs.err # NoErr
                /\ Tick(t))
                  => "OnErrStage" \in obs'.cbs
            /\ ErrStagePath(t) => tasks'[t].state # TaskStateFailed ]_vars

\* OnErrStage has returned an error for a running task with a failed
\* subtask, and the row is still running.
C22_Witness ==
    /\ obs.id = 1
    /\ obs.op = "onRunning"
    /\ obs.cbs = {"OnErrStage"}
    /\ obs.err = "not retryable err"
    /\ tasks[1].state = TaskStateRunning
    /\ CollectSubTaskError(1) # {}
    /\ dsp[1].pc = "idle"

\* OnErrStage has returned an error for a cancelling task, and the row is
\* still cancelling.
C22_WitnessCancelling ==
    /\ obs.id = 1
    /\ obs.op = "onCancelling"
    /\ obs.cbs = {"OnErrStage"}
    /\ obs.err = "not retryable err"
    /\ tasks[1].state = TaskStateCancelling

\* The subtask rows of task t that were created during its current step.
CurrentStepSubtasks(t) ==
    { i \in 1..Len(subtasks) :
        subtasks[i].task = t /\ subtasks[i].step = tasks[t].step }

\* C23: while a task's persisted state is running, every subtask of its
\* current step is pending, running, succeed or failed.
C23_RunningSubtaskStates ==
    \A t \in 1..Len(tasks) :
        tasks[t].state = TaskStateRunning
            => \A i \in CurrentStepSubtasks(t) :
                   subtasks[i].state \in { TaskStatePending, TaskStateRunning,
                                           TaskStateSucceed, TaskStateFailed }

\* A running task with subtasks of its step in three of the four states.
C23_Witness ==
    /\ Len(tasks) >= 1
    /\ tasks[1].state = TaskStateRunning
    /\ { subtasks[i].state : i \in CurrentStepSubtasks(1) }
           = { TaskStateFailed, TaskStateSucceed, TaskStateRunning }

\* C24: while a task's persisted state is reverting, every subtask of its
\* current step is revert_pending, reverting or reverted, the subtasks
\* dispatched for that step before the revert began included.
C24_RevertingSubtaskStates ==
    \A t \in 1..Len(tasks) :
        tasks[t].state = TaskStateReverting
            => \A i \in CurrentStepSubtasks(t) :
                   subtasks[i].state \in { TaskStateRevertPending,
                                           TaskStateReverting,
                                           TaskStateReverted }

\* What does hold while a task is reverting: the subtasks the write to
\* reverting inserted are revert_pending, reverting or reverted, and the
\* subtasks dispatched before keep the states the executors left them in.
C24_RevertSubtasksOnly ==
    \A t \in 1..Len(tasks) :
        tasks[t].state = TaskStateReverting
            => \A i \in CurrentStepSubtasks(t) :
                   \/ subtasks[i].state \in { TaskStateRevertPending,
                                              TaskStateReverting,
                                              TaskStateReverted }
                   \/ /\ subtasks[i].meta # OnErrStage(tasks[t].type, 0).meta
                      /\ subtasks[i].state \in { TaskStatePending,
                                                 TaskStateRunning,
                                                 TaskStateSucceed,
                                                 TaskStateFailed }

\* C25: whenever a tick of a driver finds its task running, the driver's
\* taskNodes is not empty, also when the driver was constructed for a task
\* that was running already.
C25_TaskNodesNonEmptyWhenRunning ==
    [][ \A t \in 1..Len(tasks) :
            (Tick(t) /\ tasks[t].state = TaskStateRunning)
                => Len(dsp[t].taskNodes) > 0 ]_vars

\* What does hold: a driver that has carried out a dispatch itself has a
\* taskNodes that is not empty; a driver constructed for a running task has
\* an empty one and replaceDeadNodesIfAny returns its error on every tick
\* that finds subtasks pending or running.
C25_EmptyTaskNodesIsReported ==
    [][ \A t \in 1..Len(tasks) :
            (Count(t) /\ Len(dsp[t].taskNodes) = 0
             /\ GetSubtaskInStatesCnt(t, { TaskStatePending,
                                           TaskStateRunning }) > 0)
                => /\ obs'.err = "len(d.taskNodes) == 0, onNextStage is not invoked before onRunning"
                   /\ obs'.cbs = {}
                   /\ subtasks' = subtasks
                   /\ dsp'[t].taskNodes = << >> ]_vars

\* Without a change of ownership the driver of a running task is the one
\* that dispatched it.
C25_DispatchingDriverHasTaskNodes ==
    \A t \in 1..Len(tasks) :
        (tasks[t].state = TaskStateRunning /\ t \in runningTasks)
            => Len(dsp[t].taskNodes) > 0

DriverWrittenStates ==
    { TaskStateRunning, TaskStateSucceed, TaskStateFailed, TaskStateReverting,
      TaskStateReverted }

\* C27: a driver persists no state other than running, succeed, failed,
\* reverting and reverted: every storage loop of updateTask carries one of
\* these, a row changes to another state only by an external cancel, no
\* driver holds in memory a state that neither it nor a submitter or a
\* canceller writes, and no row is ever canceled, revert_failed or
\* revert_pending.
C27_DriverWritesOnlyFiveStates ==
    /\ [](\A t \in 1..Len(tasks) :
              /\ tasks[t].state \in DriverWrittenStates
                     \cup { TaskStatePending, TaskStateCancelling }
              /\ dsp[t].pc # "none"
                     => dsp[t].task.state \in DriverWrittenStates
                            \cup { TaskStatePending, TaskStateCancelling })
    /\ [][ \A t \in 1..Len(tasks) :
               /\ Update(t) => dsp[t].task.state \in DriverWrittenStates
               /\ tasks'[t].state # tasks[t].state
                      => \/ tasks'[t].state \in DriverWrittenStates
                         \/ CancelTask(t) ]_vars

\* A driver has written reverted, the last of the five states, after it had
\* written running and reverting.
C27_Witness ==
    /\ Len(tasks) >= 1
    /\ tasks[1].state = TaskStateReverted
    /\ obs.op = "updateTask"
    /\ obs.err = NoErr
    /\ \E i \in 1..Len(subtasks) : subtasks[i].state = TaskStateSucceed
    /\ \E i \in 1..Len(subtasks) : subtasks[i].state = TaskStateReverted

\* The handler scheduleTask runs for a task state.
HandlerOf(state) ==
    CASE state = TaskStatePending -> "onPending"
      [] state = TaskStateRunning -> "onRunning"
      [] state = TaskStateCancelling -> "onCancelling"
      [] state = TaskStateReverting -> "onReverting"
      [] OTHER -> "exit"

C29_StopEndsEveryDriver ==
    /\ \A t \in TaskIDs :
           (ctxDone /\ t \in runningTasks)
               ~> (dsp[t].pc = "none" /\ t \notin runningTasks)
    /\ [][ ctxDone => runningTasks' \subseteq runningTasks ]_vars

\* After Stop a driver has left its loop on ctx.Done while its task was
\* running with subtasks pending.
C29_Witness ==
    /\ ctxDone
    /\ obs.op = "exit"
    /\ obs.id = 1
    /\ dsp[1].pc = "none"
    /\ runningTasks = {}
    /\ tasks[1].state = TaskStateRunning
    /\ GetSubtaskInStatesCnt(1, { TaskStatePending }) > 0

\* C30: while a subtask of a running task is failed, the task neither
\* becomes succeed nor is dispatched again with a new step, whatever the
\* executors do between the two reads of onRunning.
C30_NoSucceedWithFailedSubtask ==
    [][ \A t \in 1..Len(tasks) :
            (/\ tasks[t].state = TaskStateRunning
             /\ \/ tasks'[t].state = TaskStateSucceed
                \/ tasks'[t].step # tasks[t].step)
                => \A i \in 1..Len(subtasks) :
                       subtasks[i].task = t
                           => subtasks[i].state # TaskStateFailed ]_vars

\* What does hold: a tick whose CollectSubTaskError finds a failed subtask
\* does not go on to count the subtasks, and a driver that goes on to
\* OnNextStage saw no failed subtask at its first read.
C30_FirstReadDecides ==
    [][ \A t \in 1..Len(tasks) :
            (Tick(t) /\ tasks[t].state = TaskStateRunning
             /\ CollectSubTaskError(t) # {})
                => /\ dsp'[t].pc # "count"
                   /\ "OnNextStage" \notin obs'.cbs ]_vars

(***************************************************************************)
(* Node replacement (replaceDeadNodesIfAny).                               *)
(***************************************************************************)
\* The step of driver t that calls replaceDeadNodesIfAny with a non-empty
\* taskNodes: onRunning with subtasks of the stage still in flight.
ReplaceCall(t) ==
    /\ Count(t)
    /\ GetSubtaskInStatesCnt(t, { TaskStatePending, TaskStateRunning }) > 0
    /\ Len(dsp[t].taskNodes) > 0

\* C31: replaceDeadNodesIfAny replaces an id of taskNodes, in the local cache
\* and on the subtask rows, only when the id matches no node of liveNodes, and
\* always by the exec id of a node of liveNodes; with liveNodes empty nothing
\* is replaced, UpdateFailedSchedulerIDs (the only call that can fail there)
\* is not made, and taskNodes stays as it was.
C31_ReplaceOnlyDeadByLive ==
    [][ \A t \in TaskIDs :
          ReplaceCall(t) =>
            LET old == dsp[t].taskNodes
                new == dsp'[t].taskNodes
                live == dsp'[t].liveNodes
            IN  /\ Len(new) = Len(old)
                /\ \A m \in 1..Len(old) :
                      new[m] # old[m] =>
                        /\ ~MatchServerInfo(live, old[m])
                        /\ MatchServerInfo(live, new[m])
                /\ Len(subtasks') = Len(subtasks)
                /\ \A i \in 1..Len(subtasks) :
                      subtasks'[i] # subtasks[i] =>
                        /\ subtasks[i].task = t
                        /\ subtasks[i].exec \in Range(old)
                        /\ ~MatchServerInfo(live, subtasks[i].exec)
                        /\ MatchServerInfo(live, subtasks'[i].exec)
                        /\ subtasks'[i] =
                             [ subtasks[i] EXCEPT !.exec = subtasks'[i].exec ]
                /\ Len(live) = 0 =>
                      /\ new = old
                      /\ subtasks' = subtasks
                      /\ obs'.err # "transient storage error" ]_vars

\* A driver whose two task nodes are the same node: the second node died and
\* was replaced by the first.
C31_Witness ==
    \E t \in TaskIDs :
        /\ dsp[t] # NoDriver
        /\ Len(dsp[t].taskNodes) = 2
        /\ dsp[t].taskNodes[1] = dsp[t].taskNodes[2]
        /\ MatchServerInfo(dsp[t].liveNodes, dsp[t].taskNodes[1])

\* A driver that went through replaceDeadNodesIfAny before its first refresh,
\* with liveNodes still empty.
C31_WitnessNoLiveNodes ==
    \E t \in TaskIDs :
        /\ dsp[t] # NoDriver
        /\ dsp[t].liveNodeFetchTick = 1
        /\ Len(dsp[t].liveNodes) = 0
        /\ Len(dsp[t].taskNodes) > 0

\* C32: after replaceDeadNodesIfAny returns without error with a non-empty
\* liveNodes, every entry of taskNodes matches a node of liveNodes; and when
\* UpdateFailedSchedulerIDs fails, taskNodes is unchanged.
C32_TaskNodesAllLive ==
    [][ \A t \in TaskIDs :
          ReplaceCall(t) =>
            /\ (obs'.err = NoErr /\ Len(dsp'[t].liveNodes) > 0) =>
                  \A m \in 1..Len(dsp'[t].taskNodes) :
                      MatchServerInfo(dsp'[t].liveNodes, dsp'[t].taskNodes[m])
            /\ obs'.err = "transient storage error" =>
                  dsp'[t].taskNodes = dsp[t].taskNodes ]_vars

\* What the code does keep: a failed call leaves taskNodes as it was, and a
\* successful one leaves the first entry of every id matching a live node.
C32_FirstEntriesLive ==
    [][ \A t \in TaskIDs :
          ReplaceCall(t) =>
            /\ (obs'.err = NoErr /\ Len(dsp'[t].liveNodes) > 0) =>
                  \A m \in 1..Len(dsp[t].taskNodes) :
                      (\A j \in 1..(m - 1) :
                           dsp[t].taskNodes[j] # dsp[t].taskNodes[m])
                      => MatchServerInfo(dsp'[t].liveNodes,
                                         dsp'[t].taskNodes[m])
            /\ obs'.err # NoErr =>
                  dsp'[t].taskNodes = dsp[t].taskNodes ]_vars

\* The IDs of the instances impl.GetEligibleInstances may return now.
EligibleIDs(impl) ==
    UNION { { e.nodes[i].ID : i \in 1..Len(e.nodes) } :
            e \in { r \in GetEligibleInstances(impl, serverInfos) :
                      r.err = NoErr } }

\* C33: over the calls of replaceDeadNodesIfAny with a non-empty taskNodes,
\* liveNodes is refreshed on exactly the calls that bring liveNodeFetchTick to
\* DefaultLiveNodesCheckInterval; a refresh lists, once each, the live
\* servers whose ID is the ID of an eligible instance (or fails on listing
\* them and keeps the list); and liveNodeFetchTick is in
\* 0..DefaultLiveNodesCheckInterval-1 after every call.
C33_RefreshEveryIntervalTicks ==
    [][ \A t \in TaskIDs :
          ReplaceCall(t) =>
            LET tick == dsp[t].liveNodeFetchTick + 1
                live == dsp'[t].liveNodes
            IN  /\ dsp'[t].liveNodeFetchTick
                       \in 0..(DefaultLiveNodesCheckInterval - 1)
                /\ IF tick = DefaultLiveNodesCheckInterval
                   THEN /\ dsp'[t].liveNodeFetchTick = 0
                        /\ \/ /\ obs'.err = "not found instance"
                              /\ live = dsp[t].liveNodes
                           \/ /\ Range(live) =
                                   { s \in serverInfos :
                                       s.ID \in EligibleIDs(dsp[t].impl) }
                              /\ Len(live) = Cardinality(Range(live))
                   ELSE /\ dsp'[t].liveNodeFetchTick = tick
                        /\ live = dsp[t].liveNodes ]_vars

\* liveNodeFetchTick of every driver is below the interval in every state.
C33_TickBelowInterval ==
    \A t \in TaskIDs :
        dsp[t].liveNodeFetchTick \in 0..(DefaultLiveNodesCheckInterval - 1)

\* A driver one call after a refresh: liveNodes is the refreshed list while a
\* server of it has left since.
C33_Witness ==
    \E t \in TaskIDs :
        /\ dsp[t] # NoDriver
        /\ dsp[t].liveNodeFetchTick = 1
        /\ Len(dsp[t].liveNodes) = 2
        /\ Cardinality(serverInfos) = 1

(***************************************************************************)
(* GetAllSchedulerIDs applied to a task: the subtask rows, the live        *)
(* servers and the strategy are the inputs.                                *)
(***************************************************************************)
MaxRows == 3

\* The exec ids the servers of the cluster have.
AllExecIDs == { GenerateExecID(s.IP, s.Port) : s \in AllServers }

\* The subtask rows GetAllSchedulerIDs may find: rows of the task and of
\* another task, on servers that are live or have left.
SchedulerIDRows ==
    UNION { [ 1..n -> [ task : 1..2, step : { StepOne },
                        exec : AllExecIDs, state : { TaskStatePending },
                        meta : { "m" } ] ] : n \in 0..MaxRows }

InitSchedulerIDs ==
    /\ \E type \in { TypeNumberExample, TypeTest } :
           tasks = << DispatchInputTask(type, TaskStateRunning,
                                        DefaultSubtaskConcurrency) >>
    /\ subtasks \in SchedulerIDRows
    /\ serverInfos \in SUBSET AllServers
    /\ callTime = 0
    /\ runningTasks = {1}
    /\ dsp = [ t \in TaskIDs |->
                 IF t = 1
                 THEN [ NewDriver(GetGlobalTaskByID(1)) EXCEPT !.pc = "ids" ]
                 ELSE NoDriver ]
    /\ ctxDone = FALSE
    /\ obs = NoObs
    /\ seen = NoSeen
    /\ analyze = NoAnalyze
    /\ fnIn = << >>
    /\ fnOut = [ done |-> FALSE, res |-> FALSE ]

\* The call d.GetAllSchedulerIDs(ctx, task).
GetAllSchedulerIDsCall ==
    /\ dsp[1].pc = "ids"
    /\ \E r \in GetAllSchedulerIDs(dsp[1].impl, dsp[1].task.id) :
           fnOut' = [ done |-> TRUE, res |-> r ]
    /\ dsp' = [ dsp EXCEPT ![1].pc = "idle" ]
    /\ UNCHANGED << tasks, subtasks, serverInfos, callTime, runningTasks,
                    ctxDone, obs, fnIn, seen, analyze >>

NextSchedulerIDs == GetAllSchedulerIDsCall

SpecSchedulerIDs == InitSchedulerIDs /\ [][NextSchedulerIDs]_vars

\* The exec ids of the instances eligible for the strategy of task 1: the
\* live servers for task_example, none for the test strategy.
EligibleExecIDsOfTask ==
    IF tasks[1].type = TypeTest
    THEN { GenerateExecID(mockedAllServerInfos[i].IP,
                          mockedAllServerInfos[i].Port) :
             i \in 1..Len(mockedAllServerInfos) }
    ELSE { GenerateExecID(s.IP, s.Port) : s \in serverInfos }

\* The index of the first row of task 1 that carries the exec id.
FirstRow(id) ==
    CHOOSE i \in 1..Len(subtasks) :
        /\ subtasks[i].task = 1 /\ subtasks[i].exec = id
        /\ \A j \in 1..(i - 1) :
              ~(subtasks[j].task = 1 /\ subtasks[j].exec = id)

\* C34: GetAllSchedulerIDs returns exactly the scheduler ids on the task's
\* subtask rows that match an eligible instance, each once, in the order of
\* the rows; the list is empty when there is no eligible instance or the task
\* has no subtask row.
C34_SchedulerIDsAreEligibleRowIDs ==
    fnOut.done =>
        LET ids == fnOut.res.ids
            rowIDs == { subtasks[i].exec :
                          i \in { j \in 1..Len(subtasks) :
                                    subtasks[j].task = 1 } }
        IN  /\ Range(ids) = rowIDs \cap EligibleExecIDsOfTask
            /\ Len(ids) = Cardinality(Range(ids))
            /\ \A a, b \in 1..Len(ids) :
                  a < b => FirstRow(ids[a]) < FirstRow(ids[b])
            /\ (EligibleExecIDsOfTask = {} \/ rowIDs = {}) => ids = << >>
            /\ fnOut.res.err # NoErr => serverInfos = {}

\* The task has rows on both servers, one of which has left: the call
\* returns the id of the other one only.
C34_Witness ==
    /\ fnOut.done
    /\ Len(fnOut.res.ids) = 1
    /\ Cardinality({ subtasks[i].exec :
                       i \in { j \in 1..Len(subtasks) :
                                 subtasks[j].task = 1 } }) = 2

\* Both servers are live and the rows of the task name both, the second
\* server first: the call returns the two ids in that order.
C34_WitnessOrder ==
    /\ fnOut.done
    /\ fnOut.res.ids = << GenerateExecID(Server2.IP, Server2.Port),
                          GenerateExecID(Server1.IP, Server1.Port) >>

(***************************************************************************)
(* The fan-out of the revert (dispatchSubTask4Revert, onReverting).        *)
(***************************************************************************)
RevertStates == { TaskStateRevertPending, TaskStateReverting,
                  TaskStateReverted }

\* C35: the handler that moves a task to reverting builds one revert subtask
\* for each id GetAllSchedulerIDs returns, all with the one meta of
\* OnErrStage, and the write that persists reverting inserts exactly those,
\* in revert_pending; with no id the write persists reverting and inserts
\* nothing, and the tick that then finds the task reverting writes reverted.
C35_OneRevertSubtaskPerSchedulerID ==
    [][ \A t \in TaskIDs :
          /\ (Tick(t) /\ dsp'[t].pc = "update"
                      /\ dsp'[t].task.state = TaskStateReverting) =>
                LET new == dsp'[t].upd.subs
                IN  /\ tasks[t].state \in { TaskStateRunning,
                                            TaskStateCancelling }
                    /\ \E g \in GetAllSchedulerIDs(dsp[t].impl, t) :
                          /\ g.err = NoErr
                          /\ Len(new) = Len(g.ids)
                          /\ \A i \in 1..Len(new) : new[i].exec = g.ids[i]
                    /\ \A i \in 1..Len(new) :
                          /\ new[i].task = t
                          /\ new[i].meta = OnErrStage(dsp[t].impl, callTime).meta
          /\ (Update(t) /\ dsp[t].task.state = TaskStateReverting
                        /\ obs'.err = NoErr) =>
                LET new == dsp[t].upd.subs
                    n == Len(subtasks)
                IN  /\ tasks'[t].state = TaskStateReverting
                    /\ Len(subtasks') = n + Len(new)
                    /\ \A i \in 1..n : subtasks'[i] = subtasks[i]
                    /\ \A i \in 1..Len(new) :
                          /\ subtasks'[n + i].task = t
                          /\ subtasks'[n + i].exec = new[i].exec
                          /\ subtasks'[n + i].meta = new[i].meta
                          /\ subtasks'[n + i].state = TaskStateRevertPending
          /\ (Tick(t) /\ tasks[t].state = TaskStateReverting
                      /\ GetSubtaskInStatesCnt(t, RevertStates) = 0) =>
                /\ dsp'[t].pc = "update"
                /\ dsp'[t].task.state = TaskStateReverted
                /\ dsp'[t].upd.subs = << >>
          /\ (Update(t) /\ dsp[t].task.state = TaskStateReverted
                        /\ obs'.err = NoErr) =>
                /\ tasks'[t].state = TaskStateReverted
                /\ subtasks' = subtasks ]_vars

\* A task in reverting with one revert subtask on each of the two servers
\* its subtasks ran on.
C35_Witness ==
    \E t \in 1..Len(tasks) :
        /\ tasks[t].state = TaskStateReverting
        /\ { subtasks[i].exec :
               i \in { j \in 1..Len(subtasks) :
                         /\ subtasks[j].task = t
                         /\ subtasks[j].state = TaskStateRevertPending } }
             = AllExecIDs
        /\ GetSubtaskInStatesCnt(t, RevertStates) = 2

\* A task that went through reverting to reverted without any revert
\* subtask.
C35_WitnessNoSchedulerID ==
    \E t \in 1..Len(tasks) :
        /\ tasks[t].state = TaskStateReverted
        /\ GetSubtaskInStatesCnt(t, RevertStates) = 0

(***************************************************************************)
(* Ticks whose refreshTask fails.  refreshTask assigns the task that        *)
(* GetGlobalTaskByID returns to d.task before it looks at the error; the   *)
(* storage returns, with the error, either no task (nil) or a task.        *)
(***************************************************************************)
\* The tasks GetGlobalTaskByID may return together with an error.
TasksReturnedWithError(id) == { NilTask, GetGlobalTaskByID(id) }

\* A tick whose refreshTask fails: d.task is overwritten, the error is
\* logged and the loop continues with the next tick.
RefreshFails(t) ==
    /\ dsp[t].pc = "idle"
    /\ dsp[t].task.id = t
    /\ \E task \in TasksReturnedWithError(t) :
           dsp' = [ dsp EXCEPT ![t].task = task ]
    /\ obs' = [ id |-> t, op |-> "refreshTask", cbs |-> {}, calls |-> 0,
                rejected |-> 0, err |-> "refresh task failed" ]
    /\ UNCHANGED << tasks, subtasks, serverInfos, callTime, runningTasks,
                    ctxDone, fnIn, fnOut, seen, analyze >>

\* A tick of a driver that holds a task: d.task.ID can be read.
TickLoaded(t) ==
    /\ dsp[t].task.id = t
    /\ Tick(t)

\* A tick of a driver whose d.task is nil: reading d.task.ID in refreshTask
\* is a nil dereference, the goroutine panics.
NilDereference(t) ==
    /\ dsp[t].pc = "idle"
    /\ dsp[t].task = NilTask
    /\ dsp' = [ dsp EXCEPT ![t].pc = "panic" ]
    /\ obs' = [ id |-> t, op |-> "panic", cbs |-> {}, calls |-> 0,
                rejected |-> 0, err |-> "nil pointer dereference" ]
    /\ UNCHANGED << tasks, subtasks, serverInfos, callTime, runningTasks,
                    ctxDone, fnIn, fnOut, seen, analyze >>

NextRefresh ==
    \/ Submit(TypeNumberExample)
    \/ DispatchTaskLoop
    \/ \E t \in TaskIDs : CancelTask(t)
    \/ \E i \in 1..Len(subtasks) : WorkerUpdate(i)
    \/ \E t \in TaskIDs : RefreshFails(t)
    \/ \E t \in TaskIDs : TickLoaded(t)
    \/ \E t \in TaskIDs : NilDereference(t)
    \/ \E t \in TaskIDs : Count(t)
    \/ \E t \in TaskIDs : Update(t)

SpecRefresh == Init /\ [][NextRefresh]_vars

\* C36: a tick whose reload of the task row fails invokes no handler and
\* writes nothing, and leaves the driver with a task snapshot of the same
\* task id, so that no later tick fails on the snapshot.
C36_FailedReloadKeepsSnapshot ==
    [][ \A t \in TaskIDs :
          /\ RefreshFails(t) =>
                /\ tasks' = tasks
                /\ subtasks' = subtasks
                /\ obs'.cbs = {}
                /\ dsp'[t].pc = "idle"
                /\ dsp'[t].task.id = t
          /\ dsp'[t].pc # "panic" ]_vars

\* What the code does keep: the failing tick itself invokes no handler and
\* writes nothing.
C36_FailedReloadSkipsTick ==
    [][ \A t \in TaskIDs :
          RefreshFails(t) =>
              /\ tasks' = tasks
              /\ subtasks' = subtasks
              /\ obs'.cbs = {}
              /\ dsp'[t].pc = "idle" ]_vars

(***************************************************************************)
(* The retry loop of updateTask.                                           *)
(***************************************************************************)
\* C37: the storage loop of one updateTask with a valid transform makes at
\* least one and at most retryTimes calls of UpdateGlobalTaskAndAddSubTasks;
\* it ends before retryTimes calls only on a success or on an error that is
\* not retryable, a success writes the row and inserts the subtasks once, and
\* when it returns a retryable error all retryTimes calls were made and the
\* rows are as before.
C37_UpdateRetriesUpToRetryTimes ==
    [][ \A t \in TaskIDs :
          Update(t) =>
            LET retryTimes == dsp[t].upd.retry
                retryableErr == obs'.err = "transient storage error"
            IN  /\ VerifyTaskStateTransform(dsp[t].upd.prev, dsp[t].task.state)
                /\ obs'.calls \in 1..retryTimes
                /\ obs'.calls < retryTimes => ~retryableErr
                /\ retryableErr =>
                      /\ obs'.calls = retryTimes
                      /\ obs'.rejected = 0
                      /\ tasks' = tasks
                      /\ subtasks' = subtasks
                /\ (obs'.err # NoErr /\ ~retryableErr) =>
                      /\ obs'.rejected = 1
                      /\ tasks' = tasks
                      /\ subtasks' = subtasks
                /\ obs'.err = NoErr =>
                      /\ obs'.rejected = 0
                      /\ tasks'[t].state = dsp[t].task.state
                      /\ Len(subtasks') = Len(subtasks) + Len(dsp[t].upd.subs) ]_vars

\* An updateTask all of whose retrySQLTimes attempts failed with a retryable
\* error.
C37_Witness ==
    /\ obs.op = "updateTask"
    /\ retrySQLTimes > 1
    /\ obs.calls = retrySQLTimes
    /\ obs.err = "transient storage error"

\* An updateTask that succeeded on its second attempt.
C37_WitnessSecondAttempt ==
    /\ obs.op = "updateTask"
    /\ obs.calls = 2
    /\ obs.err = NoErr

(***************************************************************************)
(* dispatchSubTask with no metas.                                          *)
(***************************************************************************)
\* C38: dispatchSubTask with an empty meta list goes to the write of succeed
\* with no subtasks and without calling GetEligibleInstances, from pending
\* and from running and whatever servers are live, and the successful write
\* makes the row succeed and inserts no subtask.
C38_EmptyMetasSucceed ==
    [][ /\ (DispatchCall /\ Len(fnIn) = 0) =>
              /\ dsp'[1].pc = "update"
              /\ dsp'[1].task.state = TaskStateSucceed
              /\ dsp'[1].upd.subs = << >>
              /\ dsp'[1].upd.prev = tasks[1].state
              /\ "GetEligibleInstances" \notin obs'.cbs
              /\ obs'.err = NoErr
        /\ (Update(1) /\ Len(fnIn) = 0 /\ obs'.err = NoErr) =>
              /\ tasks'[1].state = TaskStateSucceed
              /\ subtasks' = subtasks ]_vars

\* A pending task dispatched with no metas is succeed although no server is
\* live.
C38_Witness ==
    /\ Len(fnIn) = 0
    /\ tasks[1].state = TaskStateSucceed
    /\ tasks[1].step = StepInit
    /\ serverInfos = {}
    /\ subtasks = << >>

\* The same for a running task.
C38_WitnessFromRunning ==
    /\ Len(fnIn) = 0
    /\ tasks[1].state = TaskStateSucceed
    /\ tasks[1].step = StepOne
    /\ serverInfos = {}
    /\ subtasks = << >>

(***************************************************************************)
(* AnalyzeExec.Next: the executor hands T tasks to c = min(T, concurrency) *)
(* workers over taskCh (capacity c), the workers put their results on      *)
(* resultsCh (capacity T), and the executor waits for the workers.         *)
(***************************************************************************)
MaxAnalyzeTasks == 3
MaxAnalyzeConcurrency == 2

Min(a, b) == IF a < b THEN a ELSE b

InitAnalyze ==
    /\ tasks = << >>
    /\ subtasks = << >>
    /\ serverInfos = AllServers
    /\ callTime = 0
    /\ runningTasks = {}
    /\ dsp = [ t \in TaskIDs |-> NoDriver ]
    /\ ctxDone = FALSE
    /\ obs = NoObs
    /\ seen = NoSeen
    /\ fnIn = << >>
    /\ fnOut = [ done |-> FALSE, res |-> FALSE ]
    /\ \E T \in 1..MaxAnalyzeTasks, configured \in 1..MaxAnalyzeConcurrency :
           analyze = [ main |-> "send", tasks |-> T,
                       concurrency |-> Min(T, configured), sent |-> 0,
                       closed |-> FALSE, taskCh |-> << >>,
                       resultsCh |-> << >>,
                       worker |-> [ w \in 1..Min(T, configured) |->
                                      [ pc |-> "recv", task |-> 0 ] ] ]

AnalyzeUnchanged ==
    UNCHANGED << tasks, subtasks, serverInfos, callTime, runningTasks, dsp,
                 ctxDone, obs, fnIn, fnOut, seen >>

\* taskCh <- task: blocks while the channel holds concurrency tasks.
AnalyzeSend ==
    /\ analyze.main = "send"
    /\ analyze.sent < analyze.tasks
    /\ Len(analyze.taskCh) < analyze.concurrency
    /\ analyze' = [ analyze EXCEPT !.sent = @ + 1,
                                   !.taskCh = Append(@, analyze.sent + 1) ]
    /\ AnalyzeUnchanged

\* close(taskCh) after the last task.
AnalyzeClose ==
    /\ analyze.main = "send"
    /\ analyze.sent = analyze.tasks
    /\ analyze' = [ analyze EXCEPT !.closed = TRUE, !.main = "wait" ]
    /\ AnalyzeUnchanged

\* e.wg.Wait() returns when every worker has returned; close(resultsCh).
AnalyzeWait ==
    /\ analyze.main = "wait"
    /\ \A w \in 1..analyze.concurrency : analyze.worker[w].pc = "done"
    /\ analyze' = [ analyze EXCEPT !.main = "done" ]
    /\ AnalyzeUnchanged

\* task, ok = <-taskCh with a task in the channel.
WorkerReceive(w) ==
    /\ w \in 1..analyze.concurrency
    /\ analyze.worker[w].pc = "recv"
    /\ Len(analyze.taskCh) > 0
    /\ analyze' = [ analyze EXCEPT !.taskCh = Tail(@),
                      !.worker[w] = [ pc |-> "work",
                                      task |-> Head(analyze.taskCh) ] ]
    /\ AnalyzeUnchanged

\* task, ok = <-taskCh on the closed and empty channel: the worker returns.
WorkerReturn(w) ==
    /\ w \in 1..analyze.concurrency
    /\ analyze.worker[w].pc = "recv"
    /\ Len(analyze.taskCh) = 0
    /\ analyze.closed
    /\ analyze' = [ analyze EXCEPT !.worker[w].pc = "done" ]
    /\ AnalyzeUnchanged

\* resultsCh <- the result of the task; the worker goes on with its loop.
WorkerResult(w) ==
    /\ w \in 1..analyze.concurrency
    /\ analyze.worker[w].pc = "work"
    /\ Len(analyze.resultsCh) < analyze.tasks
    /\ analyze' = [ analyze EXCEPT
                      !.resultsCh = Append(@, [ task |-> analyze.worker[w].task,
                                                panic |-> FALSE ]),
                      !.worker[w].pc = "recv" ]
    /\ AnalyzeUnchanged

\* The analysis of the task panics: the deferred function recovers, puts the
\* panic error on resultsCh, and the worker returns.
WorkerPanic(w) ==
    /\ w \in 1..analyze.concurrency
    /\ analyze.worker[w].pc = "work"
    /\ Len(analyze.resultsCh) < analyze.tasks
    /\ analyze' = [ analyze EXCEPT
                      !.resultsCh = Append(@, [ task |-> analyze.worker[w].task,
                                                panic |-> TRUE ]),
                      !.worker[w].pc = "done" ]
    /\ AnalyzeUnchanged

NextAnalyze ==
    \/ AnalyzeSend
    \/ AnalyzeClose
    \/ AnalyzeWait
    \/ \E w \in 1..MaxAnalyzeConcurrency : WorkerReceive(w)
    \/ \E w \in 1..MaxAnalyzeConcurrency : WorkerReturn(w)
    \/ \E w \in 1..MaxAnalyzeConcurrency : WorkerResult(w)
    \/ \E w \in 1..MaxAnalyzeConcurrency : WorkerPanic(w)

SpecAnalyze == InitAnalyze /\ [][NextAnalyze]_vars

\* Every step that can be taken is taken: the executor and the workers are
\* goroutines the scheduler runs.  A panic is never forced.
SpecAnalyzeFair ==
    /\ SpecAnalyze
    /\ WF_vars(AnalyzeSend)
    /\ WF_vars(AnalyzeClose)
    /\ WF_vars(AnalyzeWait)
    /\ \A w \in 1..MaxAnalyzeConcurrency :
           /\ WF_vars(WorkerReceive(w))
           /\ WF_vars(WorkerReturn(w))
           /\ WF_vars(WorkerResult(w) \/ WorkerPanic(w))

\* The tasks that have a result on resultsCh.
ResultsOf(task) ==
    { i \in 1..Len(analyze.resultsCh) : analyze.resultsCh[i].task = task }

\* C39: AnalyzeExec.Next gets past handing out the tasks and waiting for the
\* workers, with every task received by a worker and exactly one result of
\* every task on resultsCh, in every interleaving, also when workers panic.
C39_AnalyzeGetsPastWait ==
    <>( /\ analyze.main = "done"
        /\ analyze.sent = analyze.tasks
        /\ analyze.taskCh = << >>
        /\ \A task \in 1..analyze.tasks : Cardinality(ResultsOf(task)) = 1 )

\* What the code does keep: a received task puts at most one result on
\* resultsCh, which is never full when a worker sends, and no worker panic
\* goes without its result.
C39_ResultsNeverBlock ==
    /\ \A task \in 1..analyze.tasks : Cardinality(ResultsOf(task)) <= 1
    /\ \A w \in 1..analyze.concurrency :
          analyze.worker[w].pc = "work" =>
              /\ Len(analyze.resultsCh) < analyze.tasks
              /\ ResultsOf(analyze.worker[w].task) = {}

\* Without a panic the executor gets past the wait with one result of every
\* task.
C39_NoPanicGetsPastWait ==
    <>( \/ \E i \in 1..Len(analyze.resultsCh) : analyze.resultsCh[i].panic
        \/ /\ analyze.main = "done"
           /\ \A task \in 1..analyze.tasks :
                 Cardinality(ResultsOf(task)) = 1 )

\* The executor is blocked in taskCh <- task for good: every worker has
\* returned after a panic, the channel is full, and a task is still to send.
C39_ExecutorBlockedOnSend ==
    /\ analyze.main = "send"
    /\ analyze.sent < analyze.tasks
    /\ Len(analyze.taskCh) = analyze.concurrency
    /\ \A w \in 1..analyze.concurrency : analyze.worker[w].pc = "done"

====
